---- MODULE Spec2Model ----
(***************************************************************************)
(* NoProto: the bytes codec (src/pointer/bytes.rs) and the decimal codec   *)
(* (src/pointer/dec.rs) writing into the byte arena of one buffer whose    *)
(* root value is a scalar.                                                 *)
(*                                                                         *)
(* Addresses are 0-based as in the code; the arena is a TLA+ sequence, so  *)
(* the byte at address a is buf[a + 1].                                    *)
(***************************************************************************)
EXTENDS Integers, Sequences, FiniteSets, TLC

VARIABLES
    bytes,            \* memory.bytes: the arena
    size,             \* memory.size: the address width mode
    schema,           \* the parsed schema node of the root value
    overflow_checks,  \* build profile: arithmetic overflow aborts (debug) or wraps
    ret,              \* the last call: its name, argument and what it returned
    prev,             \* the memory as it was when the last call started
    calls,            \* number of calls made so far
    lhs, rhs,         \* the two NP_Dec operands of the operator under study
    json_schema       \* the JSON schema handed to the schema parser

vars == <<bytes, size, schema, overflow_checks, ret, prev, calls, lhs, rhs,
          json_schema>>

----------------------------------------------------------------------------
(* Bounds of the model *)

\* number of calls made on one buffer
MaxCalls == 3
\* length of the longest of the short byte values handed to set
MaxLen == 3
\* largest exp of the decimal schemas and of the NP_Dec values
MaxExp == 2

----------------------------------------------------------------------------
(* Byte arena (memory): the codecs' collaborator *)

\* NP_Size: the address width mode of the arena
NP_Size == {"U8", "U16", "U32"}

addr_size_bytes(sz) == CASE sz = "U8" -> 1 [] sz = "U16" -> 2 [] sz = "U32" -> 4

\* core::u8::MAX and core::u16::MAX as usize
U8_MAX == 255
U16_MAX == 65535

\* n > core::uN::MAX as usize. Every length and address of the model is
\* below 2^31, so nothing exceeds core::u32::MAX.
exceeds_max(sz, n) ==
    CASE sz = "U8" -> n > U8_MAX
      [] sz = "U16" -> n > U16_MAX
      [] sz = "U32" -> FALSE

RECURSIVE to_be_bytes(_, _)
\* the k big-endian bytes of the unsigned number n
to_be_bytes(n, k) ==
    IF k = 0 THEN <<>> ELSE Append(to_be_bytes(n \div 256, k - 1), n % 256)

RECURSIVE from_be_bytes(_)
\* the unsigned number a big-endian byte sequence stands for
from_be_bytes(bs) ==
    IF bs = <<>> THEN 0
    ELSE from_be_bytes(SubSeq(bs, 1, Len(bs) - 1)) * 256 + bs[Len(bs)]

\* position of the root slot in the arena: two header bytes come first
ROOT_PTR_ADDR == 2
PROTOCOL_VERSION == 1

\* the byte that identifies the address width in the header
size_tag(sz) == addr_size_bytes(sz)

\* the arena of a fresh buffer: header, then the root slot holding 0
NP_Memory_new(sz) ==
    <<PROTOCOL_VERSION, size_tag(sz)>> \o to_be_bytes(0, addr_size_bytes(sz))

\* &bytes[from..to], or "panic" when the range leaves the arena
slice(buf, from, to) ==
    IF from <= to /\ to <= Len(buf)
    THEN [panic |-> FALSE, bytes |-> SubSeq(buf, from + 1, to)]
    ELSE [panic |-> TRUE, bytes |-> <<>>]

\* get_N_bytes(addr): None when addr + N > |B|
get_n_bytes(buf, addr, n) ==
    IF addr + n > Len(buf)
    THEN [some |-> FALSE, bytes |-> <<>>]
    ELSE [some |-> TRUE, bytes |-> SubSeq(buf, addr + 1, addr + n)]

\* read_address(addr): W bytes big-endian
read_address(buf, sz, addr) ==
    from_be_bytes(SubSeq(buf, addr + 1, addr + addr_size_bytes(sz)))

\* for x in 0..data.len() { write_bytes[addr + x] = data[x] }: the writes
\* are made in ascending order and the first one outside the arena panics
write_loop(buf, addr, data) ==
    LET room == IF addr >= Len(buf) THEN 0 ELSE Len(buf) - addr
        done == IF Len(data) <= room THEN Len(data) ELSE room
    IN  [panic |-> done < Len(data),
         bytes |-> [i \in 1..Len(buf) |->
                      IF i - 1 >= addr /\ i - 1 < addr + done
                      THEN data[i - addr] ELSE buf[i]]]

\* set_value_address(slot_addr, value_addr): W-byte big-endian pointer
set_value_address(buf, sz, slot, addr) ==
    write_loop(buf, slot, to_be_bytes(addr, addr_size_bytes(sz))).bytes

\* malloc / malloc_borrow: append at the tail and return the start address;
\* CapacityExceeded when the resulting buffer would exceed 2^(8W) - 1
malloc_borrow(buf, sz, data) ==
    IF exceeds_max(sz, Len(buf) + Len(data))
    THEN [err |-> TRUE, addr |-> 0, bytes |-> buf]
    ELSE [err |-> FALSE, addr |-> Len(buf), bytes |-> buf \o data]

\* the cursor of the root value: its slot and the address found in it
cursor_address == ROOT_PTR_ADDR
cursor_address_value(buf, sz) == read_address(buf, sz, cursor_address)

----------------------------------------------------------------------------
(* Results *)

None == [tag |-> "None"]
Some(v) == [tag |-> "Some", value |-> v]
Panic == [tag |-> "panic"]

\* the outcome of a set_value call: Ok, Err or panic, and the arena it leaves
Outcome(res, buf) == [res |-> res, bytes |-> buf]

----------------------------------------------------------------------------
(* NP_Bytes *)

\* NP_Bytes::new
NP_Bytes(bs) == [bytes |-> bs]

\* NP_Parsed_Schema::Bytes { size, default, sortable }
NP_Parsed_Schema_Bytes(sz, default, sortable) ==
    [kind |-> "bytes", size |-> sz, default |-> default, exp |-> 0,
     sortable |-> sortable]

\* the Bytes node of a schema of the given size and default
BytesSchema(sz, default) == NP_Parsed_Schema_Bytes(sz, default, sz > 0)

\* schema_default that forgets the schema's default
NP_Bytes_schema_default_none(sch) == None

\* NP_Bytes::schema_default
NP_Bytes_schema_default(sch) ==
    IF sch.default.tag = "Some"
    THEN Some(NP_Bytes(sch.default.value.bytes))
    ELSE None

\* the payload the fixed size loop writes: v[x] for x < len(v), else 0
fixed_payload(v, n) == [x \in 1..n |-> IF x <= Len(v) THEN v[x] ELSE 0]

\* set_value_fixed with the "rest is zeros" arm of the loop left out
set_value_fixed_nopad(buf, sz, sch, v) ==
    LET av == cursor_address_value(buf, sz)
        m  == malloc_borrow(buf, sz, [x \in 1..sch.size |-> 0])
        k  == IF Len(v) < sch.size THEN Len(v) ELSE sch.size
    IN  IF av = 0 /\ m.err THEN Outcome("Err", buf)
        ELSE
          LET buf1 == IF av = 0
                      THEN set_value_address(m.bytes, sz, cursor_address, m.addr)
                      ELSE buf
              av1  == IF av = 0 THEN m.addr ELSE av
              w    == write_loop(buf1, av1, SubSeq(v, 1, k))
          IN  Outcome(IF w.panic THEN "panic" ELSE "Ok", w.bytes)

\* fixed size branch of NP_Bytes::set_value
set_value_fixed(buf, sz, sch, v) ==
    LET av == cursor_address_value(buf, sz)
        m  == malloc_borrow(buf, sz, [x \in 1..sch.size |-> 0])
    IN  IF av = 0 /\ m.err THEN Outcome("Err", buf)
        ELSE
          LET buf1 == IF av = 0
                      THEN set_value_address(m.bytes, sz, cursor_address, m.addr)
                      ELSE buf
              av1  == IF av = 0 THEN m.addr ELSE av
              w    == write_loop(buf1, av1, fixed_payload(v, sch.size))
          IN  Outcome(IF w.panic THEN "panic" ELSE "Ok", w.bytes)

\* prev_size of NP_Bytes::set_value: the length prefix at the value address
prev_size(buf, sz) ==
    LET av == cursor_address_value(buf, sz)
        p  == get_n_bytes(buf, av, addr_size_bytes(sz))
    IN  IF av # 0
        THEN (IF p.some THEN from_be_bytes(p.bytes) ELSE 0)
        ELSE 0

\* "use existing memory" branch of NP_Bytes::set_value
set_value_reuse(buf, sz, v) ==
    LET av == cursor_address_value(buf, sz)
        w1 == write_loop(buf, av, to_be_bytes(Len(v), addr_size_bytes(sz)))
        w2 == write_loop(w1.bytes, av + addr_size_bytes(sz), v)
    IN  IF exceeds_max(sz, Len(v)) THEN Outcome("Err", buf)
        ELSE IF w1.panic THEN Outcome("panic", w1.bytes)
        ELSE Outcome(IF w2.panic THEN "panic" ELSE "Ok", w2.bytes)

\* set_value_grow without the "String too large!" checks
set_value_grow_unchecked(buf, sz, v) ==
    LET m1   == malloc_borrow(buf, sz, to_be_bytes(Len(v), addr_size_bytes(sz)))
        buf1 == set_value_address(m1.bytes, sz, cursor_address, m1.addr)
        m2   == malloc_borrow(buf1, sz, v)
    IN  IF m1.err THEN Outcome("Err", buf)
        ELSE IF m2.err THEN Outcome("Err", buf1)
        ELSE Outcome("Ok", m2.bytes)

\* "not enough space or space has not been allocated yet" branch
set_value_grow(buf, sz, v) ==
    LET m1   == malloc_borrow(buf, sz, to_be_bytes(Len(v), addr_size_bytes(sz)))
        buf1 == set_value_address(m1.bytes, sz, cursor_address, m1.addr)
        m2   == malloc_borrow(buf1, sz, v)
    IN  IF exceeds_max(sz, Len(v)) THEN Outcome("Err", buf)
        ELSE IF m1.err THEN Outcome("Err", buf)
        ELSE IF m2.err THEN Outcome("Err", buf1)
        ELSE Outcome("Ok", m2.bytes)

\* set_value that reuses the allocation only for a strictly shorter value
NP_Bytes_set_value_strict(buf, sz, sch, value) ==
    LET v == value.bytes
    IN  IF sch.size > 0 THEN set_value_fixed(buf, sz, sch, v)
        ELSE IF prev_size(buf, sz) > Len(v) THEN set_value_reuse(buf, sz, v)
        ELSE set_value_grow(buf, sz, v)

\* NP_Bytes::set_value
NP_Bytes_set_value(buf, sz, sch, value) ==
    LET v == value.bytes
    IN  IF sch.size > 0 THEN set_value_fixed(buf, sz, sch, v)
        ELSE IF prev_size(buf, sz) >= Len(v) THEN set_value_reuse(buf, sz, v)
        ELSE set_value_grow(buf, sz, v)

\* into_value without the "empty value" return
NP_Bytes_into_value_noempty(buf, sz, sch) ==
    LET av == cursor_address_value(buf, sz)
        W  == addr_size_bytes(sz)
        fx == slice(buf, av, av + sch.size)
        pf == slice(buf, av, av + W)
        n  == from_be_bytes(pf.bytes)
        dt == slice(buf, av + W, av + W + n)
    IN  IF sch.size > 0
        THEN (IF fx.panic THEN Panic ELSE Some(NP_Bytes(fx.bytes)))
        ELSE IF pf.panic THEN Panic
        ELSE IF dt.panic THEN Panic
        ELSE Some(NP_Bytes(dt.bytes))

\* NP_Bytes::into_value
NP_Bytes_into_value(buf, sz, sch) ==
    LET av == cursor_address_value(buf, sz)
        W  == addr_size_bytes(sz)
        fx == slice(buf, av, av + sch.size)
        pf == slice(buf, av, av + W)
        n  == from_be_bytes(pf.bytes)
        dt == slice(buf, av + W, av + W + n)
    IN  IF av = 0 THEN None
        ELSE IF sch.size > 0
             THEN (IF fx.panic THEN Panic ELSE Some(NP_Bytes(fx.bytes)))
        ELSE IF pf.panic THEN Panic
        ELSE IF dt.panic THEN Panic
        ELSE Some(NP_Bytes(dt.bytes))

\* get_size that leaves the length prefix out of the footprint
NP_Bytes_get_size_data_only(buf, sz, sch) ==
    LET av == cursor_address_value(buf, sz)
    IN  IF av = 0 THEN 0
        ELSE IF sch.size > 0 THEN sch.size
        ELSE read_address(buf, sz, av)

\* NP_Bytes::get_size
NP_Bytes_get_size(buf, sz, sch) ==
    LET av == cursor_address_value(buf, sz)
    IN  IF av = 0 THEN 0
        ELSE IF sch.size > 0 THEN sch.size
        ELSE read_address(buf, sz, av) + addr_size_bytes(sz)

----------------------------------------------------------------------------
(* i64: TLC's integers are narrower than 64 bits, so an i64 is held as its *)
(* two's-complement bit pattern in four 16-bit words, most significant     *)
(* first; the arithmetic below is the arithmetic of the CPU on that        *)
(* pattern.                                                                *)

WORD == 256 * 256

\* the i64 whose value is the (small) integer n
I64(n) ==
    IF n >= 0 THEN <<0, 0, n \div WORD, n % WORD>>
    ELSE <<WORD - 1, WORD - 1, (WORD - 1) - ((-n - 1) \div WORD),
           (WORD - 1) - ((-n - 1) % WORD)>>

I64_MAX == <<32767, 65535, 65535, 65535>>
I64_MIN == <<32768, 0, 0, 0>>

i64_is_negative(a) == a[1] >= 32768

\* unsigned comparison of two 64-bit patterns
u64_lt(a, b) ==
    \E i \in 1..4 : a[i] < b[i] /\ \A j \in 1..(i - 1) : a[j] = b[j]

\* a < b for i64
i64_lt(a, b) ==
    IF i64_is_negative(a) # i64_is_negative(b) THEN i64_is_negative(a)
    ELSE u64_lt(a, b)

i64_le(a, b) == a = b \/ i64_lt(a, b)

\* pattern + 1, wrapping
u64_inc(a) ==
    LET c4 == IF a[4] = WORD - 1 THEN 1 ELSE 0
        c3 == IF c4 = 1 /\ a[3] = WORD - 1 THEN 1 ELSE 0
        c2 == IF c3 = 1 /\ a[2] = WORD - 1 THEN 1 ELSE 0
    IN  <<(a[1] + c2) % WORD, (a[2] + c3) % WORD, (a[3] + c4) % WORD,
          (a[4] + 1) % WORD>>

\* -a, wrapping: complement and add one
i64_wrapping_neg(a) == u64_inc([i \in 1..4 |-> (WORD - 1) - a[i]])

\* |a| as an unsigned pattern (2^63 for i64::MIN)
i64_unsigned_abs(a) == IF i64_is_negative(a) THEN i64_wrapping_neg(a) ELSE a

\* pattern * 10: the low 64 bits and the carry out of them
u64_mul10(a) ==
    LET p4 == a[4] * 10
        p3 == a[3] * 10 + p4 \div WORD
        p2 == a[2] * 10 + p3 \div WORD
        p1 == a[1] * 10 + p2 \div WORD
    IN  [carry |-> p1 \div WORD,
         low   |-> <<p1 % WORD, p2 % WORD, p3 % WORD, p4 % WORD>>]

\* pattern / 10, unsigned
u64_div10(a) ==
    LET r1 == a[1] % 10
        d2 == r1 * WORD + a[2]
        d3 == (d2 % 10) * WORD + a[3]
        d4 == (d3 % 10) * WORD + a[4]
    IN  <<a[1] \div 10, d2 \div 10, d3 \div 10, d4 \div 10>>

\* a * 10 does not fit in an i64
i64_mul10_overflows(a) ==
    LET m == u64_mul10(i64_unsigned_abs(a))
    IN  \/ m.carry > 0
        \/ IF i64_is_negative(a) THEN u64_lt(I64_MIN, m.low)
           ELSE ~u64_lt(m.low, I64_MIN)

\* a * 10, wrapping
i64_wrapping_mul10(a) == u64_mul10(a).low

\* a / 10, truncated toward zero
i64_div10(a) ==
    IF i64_is_negative(a)
    THEN i64_wrapping_neg(u64_div10(i64_unsigned_abs(a)))
    ELSE u64_div10(a)

\* a <= b on unsigned patterns
u64_le(a, b) == ~u64_lt(b, a)

\* bit i of a pattern, bit 0 the least significant
u64_bit(a, i) == (a[4 - (i \div 16)] \div (2 ^ (i % 16))) % 2

\* (pattern << 1) | bit, the bit shifted out dropped
u64_shl1(a, bit) ==
    <<((a[1] * 2) % WORD) + (a[2] \div 32768),
      ((a[2] * 2) % WORD) + (a[3] \div 32768),
      ((a[3] * 2) % WORD) + (a[4] \div 32768),
      ((a[4] * 2) % WORD) + bit>>

\* a - b on unsigned patterns, wrapping
u64_sub(a, b) ==
    LET w4 == a[4] - b[4]
        b4 == IF w4 < 0 THEN 1 ELSE 0
        w3 == a[3] - b[3] - b4
        b3 == IF w3 < 0 THEN 1 ELSE 0
        w2 == a[2] - b[2] - b3
        b2 == IF w2 < 0 THEN 1 ELSE 0
        w1 == a[1] - b[1] - b2
    IN  <<w1 % WORD, w2 % WORD, w3 % WORD, w4 % WORD>>

\* one step of the division a / b: bit i of a enters the remainder, and the
\* quotient gets a 1 when b fits in it
u64_div_step(s, a, b, i) ==
    LET r1 == u64_shl1(s.r, u64_bit(a, i))
    IN  IF u64_le(b, r1)
        THEN [q |-> u64_shl1(s.q, 1), r |-> u64_sub(r1, b)]
        ELSE [q |-> u64_shl1(s.q, 0), r |-> r1]

\* n steps of the division, for the bits i, i - 1, ..., i - n + 1 of a: each
\* half is computed once and handed on as a value
u64_div_2(s, a, b, i) ==
    CHOOSE t \in {u64_div_step(h, a, b, i - 1) : h \in {u64_div_step(s, a, b, i)}} : TRUE
u64_div_4(s, a, b, i) ==
    CHOOSE t \in {u64_div_2(h, a, b, i - 2) : h \in {u64_div_2(s, a, b, i)}} : TRUE
u64_div_8(s, a, b, i) ==
    CHOOSE t \in {u64_div_4(h, a, b, i - 4) : h \in {u64_div_4(s, a, b, i)}} : TRUE
u64_div_16(s, a, b, i) ==
    CHOOSE t \in {u64_div_8(h, a, b, i - 8) : h \in {u64_div_8(s, a, b, i)}} : TRUE
u64_div_32(s, a, b, i) ==
    CHOOSE t \in {u64_div_16(h, a, b, i - 16) : h \in {u64_div_16(s, a, b, i)}} : TRUE

\* quotient and remainder of a / b on unsigned patterns, b not 0
u64_divrem(a, b) ==
    CHOOSE t \in {u64_div_32(h, x, y, 31) :
                    h \in {u64_div_32([q |-> <<0, 0, 0, 0>>, r |-> <<0, 0, 0, 0>>],
                                      x, y, 63) : x \in {a}, y \in {b}},
                    x \in {a}, y \in {b}} : TRUE

\* a / b for i64: the quotient truncated toward zero; division by zero and
\* i64::MIN / -1 abort in every build profile
i64_div(a, b) ==
    IF b = <<0, 0, 0, 0>> THEN [panic |-> TRUE, value |-> a]
    ELSE IF a = I64_MIN /\ b = <<WORD - 1, WORD - 1, WORD - 1, WORD - 1>>
         THEN [panic |-> TRUE, value |-> a]
    ELSE LET d == u64_divrem(i64_unsigned_abs(a), i64_unsigned_abs(b))
         IN  [panic |-> FALSE,
              value |-> IF i64_is_negative(a) # i64_is_negative(b)
                        THEN i64_wrapping_neg(d.q) ELSE d.q]

\* a + b on unsigned patterns, wrapping
u64_add(a, b) ==
    LET w4 == a[4] + b[4]
        w3 == a[3] + b[3] + w4 \div WORD
        w2 == a[2] + b[2] + w3 \div WORD
        w1 == a[1] + b[1] + w2 \div WORD
    IN  <<w1 % WORD, w2 % WORD, w3 % WORD, w4 % WORD>>

\* a + b for i64: the sum overflows when both operands have the sign that
\* the wrapped sum has not; with overflow checks that aborts
i64_add(a, b, checks) ==
    LET sum  == u64_add(a, b)
        over == /\ i64_is_negative(a) = i64_is_negative(b)
                /\ i64_is_negative(sum) # i64_is_negative(a)
    IN  [panic |-> checks /\ over, value |-> sum]

\* a - b for i64: overflows when the signs differ and the wrapped
\* difference has not the sign of a
i64_sub(a, b, checks) ==
    LET dif  == u64_sub(a, b)
        over == /\ i64_is_negative(a) # i64_is_negative(b)
                /\ i64_is_negative(dif) # i64_is_negative(a)
    IN  [panic |-> checks /\ over, value |-> dif]

\* byte k of a pattern, byte 0 the least significant
u64_byte(a, k) ==
    IF k % 2 = 0 THEN a[4 - (k \div 2)] % 256 ELSE a[4 - (k \div 2)] \div 256

\* column k of the schoolbook product of two patterns
u64_mul_column(a, b, k) ==
    LET term(i) == IF i <= k /\ k - i <= 7
                   THEN u64_byte(a, i) * u64_byte(b, k - i) ELSE 0
    IN  term(0) + term(1) + term(2) + term(3) + term(4) + term(5) + term(6)
          + term(7)

RECURSIVE u64_mul_carry(_, _, _)
\* the carry into column k
u64_mul_carry(a, b, k) ==
    IF k = 0 THEN 0
    ELSE (u64_mul_column(a, b, k - 1) + u64_mul_carry(a, b, k - 1)) \div 256

\* byte k of the 128-bit product
u64_mul_byte(a, b, k) ==
    (u64_mul_column(a, b, k) + u64_mul_carry(a, b, k)) % 256

\* the 16 bytes of the 128-bit product, least significant first
u64_mul_bytes(a, b) == [k \in 1..16 |-> u64_mul_byte(a, b, k - 1)]

\* the 128-bit product of two unsigned patterns: its high and low 64 bits
u64_mul_wide(a, b) ==
    CHOOSE m \in {[high |-> <<p[16] * 256 + p[15], p[14] * 256 + p[13],
                              p[12] * 256 + p[11], p[10] * 256 + p[9]>>,
                    low  |-> <<p[8] * 256 + p[7], p[6] * 256 + p[5],
                              p[4] * 256 + p[3], p[2] * 256 + p[1]>>] :
                      p \in {SubSeq(u64_mul_bytes(x, y), 1, 16) :
                                x \in {a}, y \in {b}}} : TRUE

\* a * b for i64: the low 64 bits of the product; it overflows when the
\* product of the magnitudes exceeds i64::MAX, or 2^63 for a negative product
i64_mul(a, b, checks) ==
    LET neg == i64_is_negative(a) # i64_is_negative(b)
    IN  CHOOSE r \in
            {[panic |-> checks /\
                          (\/ m.high # <<0, 0, 0, 0>>
                           \/ IF neg THEN u64_lt(I64_MIN, m.low)
                              ELSE ~u64_lt(m.low, I64_MIN)),
              value |-> IF neg THEN i64_wrapping_neg(m.low) ELSE m.low] :
                m \in {u64_mul_wide(i64_unsigned_abs(a), i64_unsigned_abs(b))}} :
            TRUE

\* i64::to_be_bytes
i64_to_be_bytes(a) ==
    <<a[1] \div 256, a[1] % 256, a[2] \div 256, a[2] % 256,
      a[3] \div 256, a[3] % 256, a[4] \div 256, a[4] % 256>>

\* i64::from_be_bytes
i64_from_be_bytes(bs) ==
    <<bs[1] * 256 + bs[2], bs[3] * 256 + bs[4],
      bs[5] * 256 + bs[6], bs[7] * 256 + bs[8]>>

\* utils::to_unsigned and utils::to_signed: flip the high bit of a byte
to_unsigned(byte) == IF byte >= 128 THEN byte - 128 ELSE byte + 128
to_signed(byte) == IF byte >= 128 THEN byte - 128 ELSE byte + 128

----------------------------------------------------------------------------
(* NP_Dec *)

\* NP_Dec::new
NP_Dec(num, exp) == [num |-> num, exp |-> exp]

\* the result of a computation that may abort on arithmetic overflow
Done(v) == [panic |-> FALSE, value |-> v]
Abort(v) == [panic |-> TRUE, value |-> v]

RECURSIVE mul10_loop(_, _, _)
\* while step > 0 { self.num *= 10; step -= 1 }: with overflow checks the
\* first product that does not fit aborts, without them it wraps
mul10_loop(num, step, checks) ==
    IF step = 0 THEN Done(num)
    ELSE IF checks /\ i64_mul10_overflows(num) THEN Abort(num)
    ELSE mul10_loop(i64_wrapping_mul10(num), step - 1, checks)

RECURSIVE div10_loop(_, _)
\* while step > 0 { self.num /= 10; step -= 1 }
div10_loop(num, step) ==
    IF step = 0 THEN num ELSE div10_loop(i64_div10(num), step - 1)

\* shift_exp that rescales the num and leaves the exp as it was
shift_exp_keep_exp(self, new_exp, checks) ==
    LET diff == self.exp - new_exp
        step == IF diff < 0 THEN -diff ELSE diff
        up   == mul10_loop(self.num, step, checks)
    IN  IF self.exp = new_exp THEN Done(self)
        ELSE IF diff < 0
             THEN (IF up.panic THEN Abort(self)
                   ELSE Done(NP_Dec(up.value, self.exp)))
        ELSE Done(NP_Dec(div10_loop(self.num, step), self.exp))

\* NP_Dec::shift_exp
shift_exp(self, new_exp, checks) ==
    LET diff == self.exp - new_exp
        step == IF diff < 0 THEN -diff ELSE diff
        up   == mul10_loop(self.num, step, checks)
    IN  IF self.exp = new_exp THEN Done(self)
        ELSE IF diff < 0
             THEN (IF up.panic THEN Abort(self)
                   ELSE Done(NP_Dec(up.value, new_exp)))
        ELSE Done(NP_Dec(div10_loop(self.num, step), new_exp))

\* NP_Dec::match_exp
match_exp(self, other, checks) ==
    IF other.exp = self.exp THEN Done(other)
    ELSE shift_exp(other, self.exp, checks)

\* u8::max
u8_max(x, y) == IF x >= y THEN x ELSE y

\* the two operands of eq and ne, both brought to the larger exp
eq_operands(self, other, checks) ==
    LET new_exp   == u8_max(self.exp, other.exp)
        new_self  == IF new_exp = self.exp THEN Done(self)
                     ELSE shift_exp(self, new_exp, checks)
        new_other == IF new_exp = other.exp THEN Done(other)
                     ELSE shift_exp(other, new_exp, checks)
    IN  [panic |-> new_self.panic \/ new_other.panic,
         a |-> new_self.value.num, b |-> new_other.value.num]

\* PartialEq::eq for NP_Dec
NP_Dec_eq(self, other, checks) ==
    IF self.exp = other.exp THEN Done(self.num = other.num)
    ELSE LET o == eq_operands(self, other, checks)
         IN  IF o.panic THEN Abort(FALSE) ELSE Done(o.a = o.b)

\* PartialEq::ne for NP_Dec
NP_Dec_ne(self, other, checks) ==
    IF self.exp = other.exp THEN Done(self.num # other.num)
    ELSE LET o == eq_operands(self, other, checks)
         IN  IF o.panic THEN Abort(FALSE) ELSE Done(o.a # o.b)

\* the two numbers lt, le, gt, ge and partial_cmp compare
ord_operands(self, other, checks) ==
    IF self.exp = other.exp
    THEN [panic |-> FALSE, a |-> self.num, b |-> other.num]
    ELSE LET new_other == match_exp(self, other, checks)
         IN  [panic |-> new_other.panic, a |-> self.num,
              b |-> new_other.value.num]

\* PartialOrd::lt for NP_Dec
NP_Dec_lt(self, other, checks) ==
    LET o == ord_operands(self, other, checks)
    IN  IF o.panic THEN Abort(FALSE) ELSE Done(i64_lt(o.a, o.b))

\* PartialOrd::le for NP_Dec
NP_Dec_le(self, other, checks) ==
    LET o == ord_operands(self, other, checks)
    IN  IF o.panic THEN Abort(FALSE) ELSE Done(i64_le(o.a, o.b))

\* PartialOrd::gt for NP_Dec
NP_Dec_gt(self, other, checks) ==
    LET o == ord_operands(self, other, checks)
    IN  IF o.panic THEN Abort(FALSE) ELSE Done(i64_lt(o.b, o.a))

\* PartialOrd::ge for NP_Dec
NP_Dec_ge(self, other, checks) ==
    LET o == ord_operands(self, other, checks)
    IN  IF o.panic THEN Abort(FALSE) ELSE Done(i64_le(o.b, o.a))

\* PartialOrd::partial_cmp for NP_Dec
NP_Dec_partial_cmp(self, other, checks) ==
    LET o == ord_operands(self, other, checks)
    IN  IF o.panic THEN Abort("None")
        ELSE IF i64_lt(o.b, o.a) THEN Done("Greater")
        ELSE IF i64_lt(o.a, o.b) THEN Done("Less")
        ELSE IF o.a = o.b THEN Done("Equal")
        ELSE Done("None")

\* Into<i64> for NP_Dec: the num divided by 10, exp times
NP_Dec_into_i64(self) == div10_loop(self.num, self.exp)

\* `as i32`: the low 32 bits of an i64, as two 16-bit words
i64_as_i32(a) == <<a[3], a[4]>>

\* Into<i32> for NP_Dec
NP_Dec_into_i32(self) == i64_as_i32(div10_loop(self.num, self.exp))

\* the i64 operation of an arithmetic impl: +, - and * abort on overflow
\* with overflow checks and wrap without, / aborts on a zero divisor
i64_op(op, a, b, checks) ==
    CASE op = "add" -> i64_add(a, b, checks)
      [] op = "sub" -> i64_sub(a, b, checks)
      [] op = "mul" -> i64_mul(a, b, checks)
      [] op = "div" -> i64_div(a, b)

\* arithmetic on the nums as they are, other not brought to the exp of self
NP_Dec_arith_unmatched(op, self, other, checks) ==
    CHOOSE d \in {IF r.panic THEN Abort(self)
                  ELSE Done(NP_Dec(r.value, self.exp)) :
                     r \in {i64_op(op, self.num, other.num, checks)}} : TRUE

\* the body that the eight arithmetic impls share, op being the operator of
\* the impl: other_copy is self.match_exp(&other) when the exps differ, and
\* self.num becomes self.num op other_copy.num; the binary forms return
\* self, the assigning forms leave it in the receiver
NP_Dec_arith(op, self, other, checks) ==
    CHOOSE d \in
        {IF other_copy.panic THEN Abort(self)
         ELSE CHOOSE e \in {IF r.panic THEN Abort(self)
                            ELSE Done(NP_Dec(r.value, self.exp)) :
                               r \in {i64_op(op, self.num, other_copy.value.num,
                                             checks)}} : TRUE :
            other_copy \in {IF self.exp # other.exp
                            THEN match_exp(self, other, checks)
                            ELSE Done(other)}} : TRUE

\* core::ops::Div for NP_Dec: self.num / other.num, other first brought to
\* the exp of self
NP_Dec_div(self, other, checks) ==
    LET other_copy == IF self.exp # other.exp THEN match_exp(self, other, checks)
                      ELSE Done(other)
        q          == i64_div(self.num, other_copy.value.num)
    IN  IF other_copy.panic \/ q.panic THEN Abort(self)
        ELSE Done(NP_Dec(q.value, self.exp))

\* NP_Parsed_Schema::Decimal { exp, default, sortable }
NP_Parsed_Schema_Decimal(exp, default, sortable) ==
    [kind |-> "dec", size |-> 0, default |-> default, exp |-> exp,
     sortable |-> sortable]

\* the Decimal node of a schema of the given exp and default
DecimalSchema(exp, default) == NP_Parsed_Schema_Decimal(exp, default, TRUE)

\* NP_Dec::schema_default
NP_Dec_schema_default(sch) ==
    IF sch.default.tag = "Some"
    THEN Some(NP_Dec(sch.default.value.num, sch.exp))
    ELSE None

\* the 8 bytes of a num without the conversion to unsigned
dec_be_bytes_noflip(i64_value) == i64_to_be_bytes(i64_value)

\* the 8 bytes set_value writes for a num: big-endian, first byte flipped
dec_be_bytes(i64_value) ==
    LET be == i64_to_be_bytes(i64_value)
    IN  [be EXCEPT ![1] = to_unsigned(be[1])]

\* the num of 8 bytes of the arena without the conversion to signed
dec_from_bytes_noflip(x) == i64_from_be_bytes(x)

\* the num into_value reads from 8 bytes of the arena
dec_from_bytes(x) ==
    i64_from_be_bytes([x EXCEPT ![1] = to_signed(x[1])])

\* set_value that allocates a new region on every call
NP_Dec_set_value_append(buf, sz, sch, value, checks) ==
    LET cloned == shift_exp(value, sch.exp, checks)
        be     == dec_be_bytes(cloned.value.num)
        m      == malloc_borrow(buf, sz, be)
    IN  IF cloned.panic THEN Outcome("panic", buf)
        ELSE IF m.err THEN Outcome("Err", buf)
        ELSE Outcome("Ok",
                     set_value_address(m.bytes, sz, cursor_address, m.addr))

\* NP_Dec::set_value
NP_Dec_set_value(buf, sz, sch, value, checks) ==
    LET av     == cursor_address_value(buf, sz)
        cloned == shift_exp(value, sch.exp, checks)
        be     == dec_be_bytes(cloned.value.num)
        w      == write_loop(buf, av, be)
        m      == malloc_borrow(buf, sz, be)
    IN  IF cloned.panic THEN Outcome("panic", buf)
        ELSE IF av # 0
             THEN Outcome(IF w.panic THEN "panic" ELSE "Ok", w.bytes)
        ELSE IF m.err THEN Outcome("Err", buf)
        ELSE Outcome("Ok",
                     set_value_address(m.bytes, sz, cursor_address, m.addr))

\* NP_Dec::into_value
NP_Dec_into_value(buf, sz, sch) ==
    LET av == cursor_address_value(buf, sz)
        x  == get_n_bytes(buf, av, 8)
    IN  IF av = 0 THEN None
        ELSE IF x.some THEN Some(NP_Dec(dec_from_bytes(x.bytes), sch.exp))
        ELSE None

\* NP_Dec::get_size
NP_Dec_get_size(buf, sz) ==
    IF cursor_address_value(buf, sz) = 0 THEN 0 ELSE 8

----------------------------------------------------------------------------
(* NP_JSON: what to_json returns *)

NP_JSON_Null == [json |-> "Null"]
NP_JSON_Array(items) == [json |-> "Array", items |-> items]
NP_JSON_Dictionary(num, exp) == [json |-> "Dictionary", num |-> num, exp |-> exp]
NP_JSON_Integer(x) == [json |-> "Integer", x |-> x]
\* a float is held as its number of tenths: NP_JSON_Float(25) is 2.5
NP_JSON_Float(tenths) == [json |-> "Float", tenths |-> tenths]

\* NP_Bytes::to_json
NP_Bytes_to_json(buf, sz, sch) ==
    LET x == NP_Bytes_into_value(buf, sz, sch)
    IN  IF x.tag = "panic" THEN Panic
        ELSE IF x.tag = "Some" THEN NP_JSON_Array(x.value.bytes)
        ELSE IF x.tag = "None"
             THEN (IF sch.default.tag = "Some"
                   THEN NP_JSON_Array(sch.default.value.bytes)
                   ELSE NP_JSON_Null)
        ELSE NP_JSON_Null

\* NP_Dec::to_json
NP_Dec_to_json(buf, sz, sch) ==
    LET x == NP_Dec_into_value(buf, sz, sch)
    IN  IF x.tag = "panic" THEN Panic
        ELSE IF x.tag = "Some" THEN NP_JSON_Dictionary(x.value.num, sch.exp)
        ELSE IF x.tag = "None"
             THEN (IF sch.default.tag = "Some"
                   THEN NP_JSON_Dictionary(sch.default.value.num, sch.exp)
                   ELSE NP_JSON_Null)
        ELSE NP_JSON_Null

----------------------------------------------------------------------------
(* Schema parsing: from a JSON schema to a node and its compact bytes, and  *)
(* from the compact bytes back to a node                                    *)

\* NP_TypeKeys::Bytes as u8 and NP_TypeKeys::Decimal as u8
NP_TypeKeys_Bytes == 3
NP_TypeKeys_Decimal == 14

\* a JSON schema object: json_schema["type"], ["size"], ["exp"], ["default"];
\* a key that is missing reads as NP_JSON::Null
JsonSchema(type, sz, exp, default) ==
    [type |-> type, size |-> sz, exp |-> exp, default |-> default]

\* what from_json_to_schema returns: Ok(Some((schema_data, schema))), Ok(None)
\* for a type of another codec, Err, or an abort
Parsed(res, data, nodes) == [res |-> res, data |-> data, schema |-> nodes]

\* `x as u8` of a JSON integer
as_u8(x) == x % 256

\* the "size" arm of NP_Bytes::from_json_to_schema
bytes_schema_size(j) ==
    IF j.json = "Integer"
    THEN [err |-> j.x < 1 \/ j.x > U16_MAX, fixed |-> TRUE, size |-> j.x]
    ELSE IF j.json = "Float"
    THEN [err |-> j.tenths < 10 \/ j.tenths > U16_MAX * 10, fixed |-> TRUE,
          size |-> j.tenths \div 10]
    ELSE [err |-> FALSE, fixed |-> FALSE, size |-> 0]

\* default_bytes.len() as u16 + 1: the sum overflows a u16 at 65535
bytes_schema_length(n, checks) ==
    LET len == n % (U16_MAX + 1)
    IN  IF len = U16_MAX
        THEN (IF checks THEN Abort(0) ELSE Done(0))
        ELSE Done(len + 1)

\* NP_Bytes::from_json_to_schema
NP_Bytes_from_json_to_schema(nodes, json, checks) ==
    LET sz      == bytes_schema_size(json.size)
        has_def == json.default.json = "Array"
        bs      == IF has_def
                   THEN SubSeq([i \in 1..Len(json.default.items) |->
                                   as_u8(json.default.items[i])],
                               1, Len(json.default.items))
                   ELSE <<>>
        length  == IF has_def THEN bytes_schema_length(Len(bs), checks)
                   ELSE Done(0)
        data    == <<NP_TypeKeys_Bytes>> \o to_be_bytes(sz.size, 2)
                      \o to_be_bytes(length.value, 2) \o bs
        node    == NP_Parsed_Schema_Bytes(sz.size,
                       IF has_def THEN Some(NP_Bytes(bs)) ELSE None, sz.fixed)
    IN  IF json.type \notin {"bytes", "u8[]", "[u8]"} THEN Parsed("None", <<>>, nodes)
        ELSE IF sz.err THEN Parsed("Err", <<>>, nodes)
        ELSE IF length.panic THEN Parsed("panic", <<>>, nodes)
        ELSE Parsed("Ok", data, Append(nodes, node))

\* NP_Bytes::from_bytes_to_schema
NP_Bytes_from_bytes_to_schema(nodes, address, data) ==
    LET fixed_size   == from_be_bytes(SubSeq(data, address + 2, address + 3))
        default_size == from_be_bytes(SubSeq(data, address + 4, address + 5))
        d            == slice(data, address + 5, address + 5 + (default_size - 1))
    IN  IF address + 5 > Len(data) THEN Parsed("panic", data, nodes)
        ELSE IF default_size = 0
        THEN Parsed("Ok", data,
                    Append(nodes, NP_Parsed_Schema_Bytes(fixed_size, None,
                                                         fixed_size > 0)))
        ELSE IF d.panic THEN Parsed("panic", data, nodes)
        ELSE Parsed("Ok", data,
                    Append(nodes, NP_Parsed_Schema_Bytes(fixed_size,
                                      Some(NP_Bytes(d.bytes)), fixed_size > 0)))

RECURSIVE i64_mul_pow10(_, _, _)
\* x * 10^exp in i64, as exp multiplications by 10: the same product modulo
\* 2^64, and an overflow for the same x and exp, as x * 10i64.pow(exp). With
\* overflow checks a product that does not fit aborts, without them it wraps.
\* The first half of the multiplications is done, then the rest.
i64_mul_pow10(x, exp, checks) ==
    IF exp = 0 THEN Done(x)
    ELSE IF exp = 1
    THEN (IF checks /\ i64_mul10_overflows(x) THEN Abort(x)
          ELSE Done(i64_wrapping_mul10(x)))
    ELSE CHOOSE t \in {IF p.panic THEN p
                       ELSE i64_mul_pow10(p.value, exp - (exp \div 2), checks) :
                       p \in {i64_mul_pow10(x, exp \div 2, checks)}} : TRUE

\* 10i64.pow(exp as u32)
i64_pow10(exp, checks) == i64_mul_pow10(I64(1), exp, checks)

\* NP_Dec::from_json_to_schema. A default that is a JSON float goes through
\* f64 arithmetic and is not among the schemas parsed here.
NP_Dec_from_json_to_schema(nodes, json, checks) ==
    LET exp     == json.exp.x
        mult    == i64_pow10(exp, checks)
        has_def == json.default.json = "Integer"
        value   == i64_mul_pow10(I64(json.default.x), exp, checks)
        data    == <<NP_TypeKeys_Decimal, as_u8(exp)>>
                      \o (IF has_def THEN <<1>> \o i64_to_be_bytes(value.value)
                          ELSE <<0>>)
        node    == NP_Parsed_Schema_Decimal(exp,
                       IF has_def THEN Some(NP_Dec(value.value, exp)) ELSE None,
                       TRUE)
    IN  IF json.type \notin {"decimal", "dec"} THEN Parsed("None", <<>>, nodes)
        ELSE IF json.exp.json # "Integer" THEN Parsed("Err", <<>>, nodes)
        ELSE IF exp > 255 \/ exp < 0 THEN Parsed("Err", <<>>, nodes)
        ELSE IF mult.panic THEN Parsed("panic", <<>>, nodes)
        ELSE IF has_def /\ value.panic THEN Parsed("panic", <<>>, nodes)
        ELSE Parsed("Ok", data, Append(nodes, node))

\* NP_Dec::from_bytes_to_schema
NP_Dec_from_bytes_to_schema(nodes, address, data) ==
    LET exp == data[address + 2]
        d   == slice(data, address + 3, address + 11)
    IN  IF address + 3 > Len(data) THEN Parsed("panic", data, nodes)
        ELSE IF data[address + 3] = 0
        THEN Parsed("Ok", data,
                    Append(nodes, NP_Parsed_Schema_Decimal(exp, None, TRUE)))
        ELSE IF d.panic THEN Parsed("panic", data, nodes)
        ELSE Parsed("Ok", data,
                    Append(nodes, NP_Parsed_Schema_Decimal(exp,
                               Some(NP_Dec(i64_from_be_bytes(d.bytes), exp)), TRUE)))

\* the schema parser's dispatch: the codec that owns the "type" parses it
from_json_to_schema(nodes, json, checks) ==
    LET b == NP_Bytes_from_json_to_schema(nodes, json, checks)
    IN  IF b.res # "None" THEN b
        ELSE NP_Dec_from_json_to_schema(nodes, json, checks)

\* the dispatch on the TypeKey found at the address
from_bytes_to_schema(nodes, address, data) ==
    IF data[address + 1] = NP_TypeKeys_Bytes
    THEN NP_Bytes_from_bytes_to_schema(nodes, address, data)
    ELSE NP_Dec_from_bytes_to_schema(nodes, address, data)

----------------------------------------------------------------------------
(* Buffer facade: get, set, del, compact on the root value *)

into_value(buf, sz, sch) ==
    IF sch.kind = "bytes" THEN NP_Bytes_into_value(buf, sz, sch)
    ELSE NP_Dec_into_value(buf, sz, sch)

schema_default(sch) ==
    IF sch.kind = "bytes" THEN NP_Bytes_schema_default(sch)
    ELSE NP_Dec_schema_default(sch)

set_value(buf, sz, sch, v, checks) ==
    IF sch.kind = "bytes" THEN NP_Bytes_set_value(buf, sz, sch, v)
    ELSE NP_Dec_set_value(buf, sz, sch, v, checks)

to_json(buf, sz, sch) ==
    IF sch.kind = "bytes" THEN NP_Bytes_to_json(buf, sz, sch)
    ELSE NP_Dec_to_json(buf, sz, sch)

\* the codec of the schema answers get_size
get_size(buf, sz, sch) ==
    IF sch.kind = "bytes" THEN NP_Bytes_get_size(buf, sz, sch)
    ELSE NP_Dec_get_size(buf, sz)

\* get(path): the stored value, else the schema's default, else None
get(buf, sz, sch) ==
    LET x == into_value(buf, sz, sch)
    IN  IF x.tag = "None" THEN schema_default(sch) ELSE x

\* del(path): clears the slot pointer, reclaims nothing
del(buf, sz) == set_value_address(buf, sz, cursor_address, 0)

\* compact(new_size): copy the live value into a fresh arena, then swap
compact(buf, sz, sch, new_size, checks) ==
    LET x     == into_value(buf, sz, sch)
        fresh == NP_Memory_new(new_size)
        o     == set_value(fresh, new_size, sch, x.value, checks)
    IN  IF x.tag = "panic" THEN [res |-> "panic", bytes |-> buf, size |-> sz]
        ELSE IF x.tag = "None"
             THEN [res |-> "Ok", bytes |-> fresh, size |-> new_size]
        ELSE IF o.res = "Ok"
             THEN [res |-> "Ok", bytes |-> o.bytes, size |-> new_size]
        ELSE [res |-> o.res, bytes |-> buf, size |-> sz]

\* calc_bytes().current_buffer
current_buffer(buf) == Len(buf)

----------------------------------------------------------------------------
(* Inputs *)

\* the n bytes 16n + 1, 16n + 2, ...: values of different lengths share no byte
Pattern(n) == [i \in 1..n |-> 16 * n + i]

\* n bytes 0xAA, as a sequence in memory
Fill(n) == SubSeq([i \in 1..n |-> 170], 1, n)

ShortBytes == {NP_Bytes(Pattern(n)) : n \in 0..MaxLen}

\* a value that fills the arena of a U8 buffer but for one byte, one whose
\* length prefix fits in a fresh U8 buffer and whose data do not, and values
\* one byte longer than the length prefix can tell
NearFullU8 == NP_Bytes(Fill(U8_MAX - 5))
OverfullU8 == NP_Bytes(Fill(U8_MAX - 3))
TooLongU8 == NP_Bytes(Fill(U8_MAX + 1))
TooLongU16 == NP_Bytes(Fill(U16_MAX + 1))

BytesValuesU8 == ShortBytes \cup {NearFullU8, OverfullU8, TooLongU8}
BytesValuesU16 == ShortBytes \cup {TooLongU16}

BytesValues(sz) ==
    CASE sz = "U8" -> BytesValuesU8
      [] sz = "U16" -> BytesValuesU16
      [] sz = "U32" -> ShortBytes

BytesDefault == <<1, 2, 3, 4>>

\* the fixed size of the fixed-size bytes schemas
FixedSize == 2

BytesSchemas ==
    {BytesSchema(s, d) : s \in {0, FixedSize},
                         d \in {None, Some(NP_Bytes(BytesDefault))}}

DecExps == 0..MaxExp

\* the decimals handed to set: digits that a lower exp drops, zeros that it
\* drops, a negative number, and the two ends of i64
DecValues ==
    {NP_Dec(I64(2203), MaxExp), NP_Dec(I64(2200), MaxExp), NP_Dec(I64(-25), 1),
     NP_Dec(I64_MAX, 0), NP_Dec(I64_MIN, 0)}

DecDefault == I64(203293)

DecSchemas ==
    {DecimalSchema(e, IF has_default THEN Some(NP_Dec(DecDefault, e)) ELSE None) :
        e \in DecExps, has_default \in BOOLEAN}

Schemas == BytesSchemas \cup DecSchemas

Values(sz, sch) == IF sch.kind = "bytes" THEN BytesValues(sz) ELSE DecValues

\* the build profiles that can tell a schema's codec apart: only the decimal
\* codec does arithmetic that can overflow
Profiles(sch) == IF sch.kind = "dec" THEN BOOLEAN ELSE {FALSE}

----------------------------------------------------------------------------
(* The buffer as a state machine *)

Memory(buf, sz) == [bytes |-> buf, size |-> sz]

Call(op, arg, res, value) ==
    [op |-> op, arg |-> arg, res |-> res, value |-> value]

Init ==
    /\ size \in NP_Size
    /\ schema \in Schemas
    /\ overflow_checks \in Profiles(schema)
    /\ bytes = NP_Memory_new(size)
    /\ prev = Memory(bytes, size)
    /\ ret = Call("new", None, "Ok", None)
    /\ calls = 0
    /\ lhs = NP_Dec(I64(0), 0)
    /\ rhs = NP_Dec(I64(0), 0)
    /\ json_schema = None

\* the buffer can be called: the bound is not reached and no call aborted
Live == calls < MaxCalls /\ ret.res # "panic"

Set(v) ==
    /\ Live
    /\ LET o == set_value(bytes, size, schema, v, overflow_checks)
       IN  /\ bytes' = o.bytes
           /\ ret' = Call("set", Some(v), o.res, None)
    /\ prev' = Memory(bytes, size)
    /\ calls' = calls + 1
    /\ UNCHANGED <<size, schema, overflow_checks, lhs, rhs, json_schema>>

Get ==
    /\ Live
    /\ LET x == get(bytes, size, schema)
       IN  ret' = Call("get", None, IF x.tag = "panic" THEN "panic" ELSE "Ok", x)
    /\ prev' = Memory(bytes, size)
    /\ calls' = calls + 1
    /\ UNCHANGED <<bytes, size, schema, overflow_checks, lhs, rhs, json_schema>>

Del ==
    /\ Live
    /\ bytes' = del(bytes, size)
    /\ ret' = Call("del", None, "Ok", None)
    /\ prev' = Memory(bytes, size)
    /\ calls' = calls + 1
    /\ UNCHANGED <<size, schema, overflow_checks, lhs, rhs, json_schema>>

Compact(new_size) ==
    /\ Live
    /\ LET c == compact(bytes, size, schema, new_size, overflow_checks)
       IN  /\ bytes' = c.bytes
           /\ size' = c.size
           /\ ret' = Call("compact", None, c.res, None)
    /\ prev' = Memory(bytes, size)
    /\ calls' = calls + 1
    /\ UNCHANGED <<schema, overflow_checks, lhs, rhs, json_schema>>

Next ==
    \/ \E v \in Values(size, schema) : Set(v)
    \/ Get
    \/ Del
    \/ \E new_size \in NP_Size : Compact(new_size)

Spec == Init /\ [][Next]_vars

----------------------------------------------------------------------------
(* NP_Dec as a value: comparison and encoding of two operands *)

OperandNums ==
    {I64(0), I64(1), I64(-1), I64(25), I64(199), I64(202), I64(20201),
     I64(2203), I64(-2203), I64_MAX, I64_MIN}

DecOperands ==
    {NP_Dec(n, e) : n \in OperandNums, e \in DecExps}
        \cup {NP_Dec(I64(2020100), 4)}

DecInit ==
    /\ lhs \in DecOperands
    /\ rhs \in DecOperands
    /\ overflow_checks \in BOOLEAN
    /\ size = "U16"
    /\ schema = DecimalSchema(lhs.exp, None)
    /\ bytes = NP_Memory_new(size)
    /\ prev = Memory(bytes, size)
    /\ ret = Call("new", None, "Ok", None)
    /\ calls = 0
    /\ json_schema = None

\* lhs == rhs, lhs != rhs, lhs < rhs, ... and lhs.partial_cmp(&rhs)
Compare ==
    /\ ret.op = "new"
    /\ ret' = Call("cmp", None, "Ok",
                   [eq |-> NP_Dec_eq(lhs, rhs, overflow_checks),
                    ne |-> NP_Dec_ne(lhs, rhs, overflow_checks),
                    lt |-> NP_Dec_lt(lhs, rhs, overflow_checks),
                    le |-> NP_Dec_le(lhs, rhs, overflow_checks),
                    gt |-> NP_Dec_gt(lhs, rhs, overflow_checks),
                    ge |-> NP_Dec_ge(lhs, rhs, overflow_checks),
                    partial_cmp |-> NP_Dec_partial_cmp(lhs, rhs, overflow_checks)])
    /\ UNCHANGED <<bytes, size, schema, overflow_checks, prev, calls, lhs, rhs, json_schema>>

\* lhs < rhs and lhs <= rhs, and the same two questions asked with the
\* operands swapped: rhs > lhs and rhs >= lhs
CompareSwapped ==
    /\ ret.op = "new"
    /\ ret' = Call("cmp_swapped", None, "Ok",
                   [lt |-> NP_Dec_lt(lhs, rhs, overflow_checks),
                    le |-> NP_Dec_le(lhs, rhs, overflow_checks),
                    gt |-> NP_Dec_gt(rhs, lhs, overflow_checks),
                    ge |-> NP_Dec_ge(rhs, lhs, overflow_checks)])
    /\ UNCHANGED <<bytes, size, schema, overflow_checks, prev, calls, lhs, rhs, json_schema>>

\* the 8 bytes at the value address of an arena
stored_bytes(buf, sz) ==
    SubSeq(buf, cursor_address_value(buf, sz) + 1, cursor_address_value(buf, sz) + 8)

\* set lhs in the buffer, and the num of rhs in a second fresh buffer of the
\* same schema; keep the 8 bytes each set wrote and what get reads back
Encode ==
    /\ ret.op = "new"
    /\ LET a == NP_Dec_set_value(bytes, size, schema, lhs, overflow_checks)
           b == NP_Dec_set_value(NP_Memory_new(size), size, schema,
                                 NP_Dec(rhs.num, lhs.exp), overflow_checks)
       IN  /\ bytes' = a.bytes
           /\ ret' = Call("encode", None, a.res,
                          [a |-> stored_bytes(a.bytes, size),
                           b |-> stored_bytes(b.bytes, size),
                           back |-> NP_Dec_into_value(a.bytes, size, schema)])
    /\ prev' = Memory(bytes, size)
    /\ calls' = calls + 1
    /\ UNCHANGED <<size, schema, overflow_checks, lhs, rhs, json_schema>>

\* lhs / rhs
Div ==
    /\ ret.op = "new"
    /\ LET d == NP_Dec_div(lhs, rhs, overflow_checks)
       IN  ret' = Call("div", None, IF d.panic THEN "panic" ELSE "Ok", d)
    /\ UNCHANGED <<bytes, size, schema, overflow_checks, prev, calls, lhs, rhs, json_schema>>

\* let out = lhs.shift_exp(new_exp)
ShiftExp(new_exp) ==
    /\ ret.op = "new"
    /\ LET r == shift_exp(lhs, new_exp, overflow_checks)
       IN  /\ ret' = Call("shift_exp", Some([self |-> lhs, new_exp |-> new_exp]),
                          IF r.panic THEN "panic" ELSE "Ok", r.value)
           /\ lhs' = r.value
    /\ UNCHANGED <<bytes, size, schema, overflow_checks, prev, calls, rhs, json_schema>>

ArithOps == {"add", "sub", "mul", "div"}

\* let out = lhs op rhs; lhs op= rhs
Arith(op) ==
    /\ ret.op = "new"
    /\ \E out \in {NP_Dec_arith(op, lhs, rhs, overflow_checks)} :
           /\ ret' = Call("arith", Some([op |-> op, a |-> lhs, b |-> rhs]),
                          IF out.panic THEN "panic" ELSE "Ok", out.value)
           /\ lhs' = out.value
    /\ UNCHANGED <<bytes, size, schema, overflow_checks, prev, calls, rhs, json_schema>>

\* let y: i64 = lhs.into(); let z: i32 = lhs.into()
Into ==
    /\ ret.op = "new"
    /\ ret' = Call("into", None, "Ok",
                   [i64 |-> NP_Dec_into_i64(lhs), i32 |-> NP_Dec_into_i32(lhs)])
    /\ UNCHANGED <<bytes, size, schema, overflow_checks, prev, calls, lhs, rhs, json_schema>>

DecNext ==
    \/ Compare
    \/ CompareSwapped
    \/ Encode
    \/ Div
    \/ Into
    \/ \E op \in ArithOps : Arith(op)
    \/ \E new_exp \in DecExps : ShiftExp(new_exp)

DecSpec == DecInit /\ [][DecNext]_vars

----------------------------------------------------------------------------
(* A buffer opened from bytes that were received: the codecs read it *)

\* the arena of a buffer in which v was set, cut off after its first k bytes
Received(sz, sch, v, k) ==
    SubSeq(set_value(NP_Memory_new(sz), sz, sch, v, FALSE).bytes, 1, k)

\* the values the sender may have set
SentValues(sch) == IF sch.kind = "bytes" THEN ShortBytes ELSE DecValues

OpenInit ==
    /\ size \in NP_Size
    /\ schema \in Schemas
    /\ overflow_checks = FALSE
    /\ \E v \in SentValues(schema) :
         LET full == set_value(NP_Memory_new(size), size, schema, v, FALSE).bytes
         IN  \E k \in Len(NP_Memory_new(size))..Len(full) :
                bytes = Received(size, schema, v, k)
    /\ prev = Memory(bytes, size)
    /\ ret = Call("open", None, "Ok", None)
    /\ calls = 0
    /\ lhs = NP_Dec(I64(0), 0)
    /\ rhs = NP_Dec(I64(0), 0)
    /\ json_schema = None

\* into_value on the root cursor of the opened buffer
IntoValue ==
    /\ ret.op = "open"
    /\ LET x == into_value(bytes, size, schema)
       IN  ret' = Call("into_value", None,
                       IF x.tag = "panic" THEN "panic" ELSE "Ok", x)
    /\ UNCHANGED <<bytes, size, schema, overflow_checks, prev, calls, lhs, rhs, json_schema>>

\* to_json on the root cursor of the opened buffer
ToJson ==
    /\ ret.op = "open"
    /\ LET j == to_json(bytes, size, schema)
       IN  ret' = Call("to_json", None,
                       IF j = Panic THEN "panic" ELSE "Ok", j)
    /\ UNCHANGED <<bytes, size, schema, overflow_checks, prev, calls, lhs, rhs, json_schema>>

OpenNext == IntoValue \/ ToJson

OpenSpec == OpenInit /\ [][OpenNext]_vars

----------------------------------------------------------------------------
(* The schema parser: a JSON schema is parsed, its compact bytes are parsed *)
(* back, and the default is read from an empty buffer                       *)

\* defaults of one byte less than, and of exactly, the largest length
AlmostLongestDefault == NP_JSON_Array(Fill(U16_MAX - 1))
LongestDefault == NP_JSON_Array(Fill(U16_MAX))

JsonSizes ==
    {NP_JSON_Null, NP_JSON_Integer(-1), NP_JSON_Integer(0), NP_JSON_Integer(1),
     NP_JSON_Integer(10), NP_JSON_Integer(U16_MAX), NP_JSON_Integer(U16_MAX + 1),
     NP_JSON_Float(5), NP_JSON_Float(25), NP_JSON_Float(U16_MAX * 10 + 5)}

JsonBytesDefaults ==
    {NP_JSON_Null, NP_JSON_Array(<<>>), NP_JSON_Array(<<22, 208, 10, 78, 1, 19, 85>>),
     NP_JSON_Array(<<300, -1>>)}

JsonExps ==
    {NP_JSON_Null, NP_JSON_Float(30), NP_JSON_Integer(-1), NP_JSON_Integer(0),
     NP_JSON_Integer(3), NP_JSON_Integer(18), NP_JSON_Integer(19),
     NP_JSON_Integer(255), NP_JSON_Integer(256)}

JsonDecDefaults ==
    {NP_JSON_Null, NP_JSON_Integer(0), NP_JSON_Integer(203), NP_JSON_Integer(-5)}

JsonSchemas ==
    {JsonSchema("bytes", sz, NP_JSON_Null, d) : sz \in JsonSizes, d \in JsonBytesDefaults}
      \cup {JsonSchema("bytes", NP_JSON_Null, NP_JSON_Null, d) :
               d \in {AlmostLongestDefault, LongestDefault}}
      \cup {JsonSchema(t, NP_JSON_Null, e, d) :
               t \in {"decimal", "dec"}, e \in JsonExps, d \in JsonDecDefaults}

\* the nodes parsed before this one
PriorNodes == {<<>>, <<DecimalSchema(0, None)>>}

\* A long sequence is kept in the state as its runs of equal items, each run
\* an item and a count; the parsers are handed, and return, the sequences.

\* the runs of s that start at the positions B
runs_at(s, B) ==
    LET start(k) == CHOOSE b \in B : Cardinality({c \in B : c < b}) = k - 1
        end(k)   == IF k = Cardinality(B) THEN Len(s) ELSE start(k + 1) - 1
    IN  [k \in 1..Cardinality(B) |->
            [item |-> s[start(k)], count |-> end(k) - start(k) + 1]]

run_starts(s) == {i \in 1..Len(s) : i = 1 \/ s[i] # s[i - 1]}

runs_of(seq) ==
    CHOOSE t \in {runs_at(s[1], s[2]) :
                    s \in {<<q, run_starts(q)>> : q \in {seq}}} : TRUE

RECURSIVE seq_of(_)
seq_of(runs) ==
    IF runs = <<>> THEN <<>>
    ELSE seq_of(SubSeq(runs, 1, Len(runs) - 1))
            \o [i \in 1..runs[Len(runs)].count |-> runs[Len(runs)].item]

PackJson(j) ==
    IF j.default.json = "Array"
    THEN [j EXCEPT !.default = NP_JSON_Array(runs_of(j.default.items))]
    ELSE j

UnpackJson(j) ==
    IF j.default.json = "Array"
    THEN [j EXCEPT !.default = NP_JSON_Array(seq_of(j.default.items))]
    ELSE j

PackNode(n) ==
    IF n.kind = "bytes" /\ n.default.tag = "Some"
    THEN [n EXCEPT !.default = Some(NP_Bytes(runs_of(n.default.value.bytes)))]
    ELSE n

UnpackNode(n) ==
    IF n.kind = "bytes" /\ n.default.tag = "Some"
    THEN [n EXCEPT !.default = Some(NP_Bytes(seq_of(n.default.value.bytes)))]
    ELSE n

PackNodes(nodes) == [k \in 1..Len(nodes) |-> PackNode(nodes[k])]

PackParsed(r) == Parsed(r.res, runs_of(r.data), PackNodes(r.schema))

SchemaInit ==
    /\ json_schema \in {PackJson(j) : j \in JsonSchemas}
    /\ overflow_checks \in BOOLEAN
    /\ size = "U16"
    /\ schema = None
    /\ bytes = NP_Memory_new(size)
    /\ prev = Memory(bytes, size)
    /\ ret = Call("new", None, "Ok", None)
    /\ calls = 0
    /\ lhs = NP_Dec(I64(0), 0)
    /\ rhs = NP_Dec(I64(0), 0)

\* from_json_to_schema(nodes, json_schema); the node it appends becomes the
\* schema of the buffer
FromJson(nodes) ==
    /\ ret.op = "new"
    /\ \E json \in {UnpackJson(json_schema)} :
       \E r \in {PackParsed(from_json_to_schema(nodes, json, overflow_checks))} :
           /\ ret' = Call("from_json", Some(nodes), r.res, r)
           /\ schema' = IF r.res = "Ok" THEN r.schema[Len(r.schema)] ELSE schema
    /\ UNCHANGED <<bytes, size, overflow_checks, prev, calls, lhs, rhs, json_schema>>

\* from_bytes_to_schema on the bytes that from_json_to_schema emitted, with
\* the same nodes before it; the call keeps the nodes parsed from the JSON
FromBytes ==
    /\ ret.op = "from_json" /\ ret.res = "Ok"
    /\ \E data \in {seq_of(ret.value.data)} :
       \E r \in {PackParsed(from_bytes_to_schema(ret.arg.value, 0, data))} :
           ret' = Call("from_bytes", Some(ret.value.schema), r.res, r)
    /\ UNCHANGED <<bytes, size, schema, overflow_checks, prev, calls, lhs, rhs,
                   json_schema>>

\* get([]) on the empty buffer of the parsed schema
GetDefault ==
    /\ ret.op = "from_json" /\ ret.res = "Ok"
    /\ \E node \in {UnpackNode(schema)} :
       \E x \in {get(bytes, size, node)} :
           ret' = Call("get", None, "Ok",
                       IF schema.kind = "bytes" /\ x.tag = "Some"
                       THEN Some(NP_Bytes(runs_of(x.value.bytes))) ELSE x)
    /\ UNCHANGED <<bytes, size, schema, overflow_checks, prev, calls, lhs, rhs,
                   json_schema>>

SchemaNext == (\E nodes \in PriorNodes : FromJson(nodes)) \/ FromBytes \/ GetDefault

SchemaSpec == SchemaInit /\ [][SchemaNext]_vars

----------------------------------------------------------------------------
(* Properties of the buffer *)

IsVarBytes == schema.kind = "bytes" /\ schema.size = 0
IsFixedBytes == schema.kind = "bytes" /\ schema.size > 0
IsDec == schema.kind = "dec"

\* the value address held by the root slot now, and when the last call started
address_value == cursor_address_value(bytes, size)
prev_address_value == cursor_address_value(prev.bytes, prev.size)

\* the addresses of the root slot
SlotAddrs == cursor_address..(cursor_address + addr_size_bytes(size) - 1)

\* the arena is as the last call found it, but for the addresses in keep
SameOutside(keep) ==
    /\ Len(bytes) = Len(prev.bytes)
    /\ \A a \in 0..(Len(bytes) - 1) : a \notin keep => bytes[a + 1] = prev.bytes[a + 1]

\* C1: variable-size bytes round trip. After a successful set(p, v) on a
\* variable-size bytes value, from any buffer state, get(p) returns exactly v.
C1_VarBytesRoundTrip ==
    (ret.op = "set" /\ ret.res = "Ok" /\ IsVarBytes)
        => get(bytes, size, schema) = Some(NP_Bytes(ret.arg.value.bytes))

\* C2: fixed-size bytes. After set(p, v) on a schema of size s > 0 the stored
\* payload is exactly s bytes and get(p) returns the s bytes that are v[i] for
\* i < min(len(v), s) and 0 from len(v) on, also over a longer earlier value.
C2_FixedSizePadTruncate ==
    (ret.op = "set" /\ ret.res = "Ok" /\ IsFixedBytes) =>
        LET v   == ret.arg.value.bytes
            got == get(bytes, size, schema)
        IN  /\ got.tag = "Some"
            /\ Len(got.value.bytes) = schema.size
            /\ \A i \in 1..schema.size :
                 got.value.bytes[i] = IF i <= Len(v) THEN v[i] ELSE 0
            /\ NP_Bytes_get_size(bytes, size, schema) = schema.size
            /\ Len(bytes) = Len(prev.bytes)
                              + (IF prev_address_value = 0 THEN schema.size ELSE 0)

\* C2 witness: a value shorter than the size has overwritten a stored value
\* whose last byte was not 0
C2_Witness ==
    /\ ret.op = "set" /\ ret.res = "Ok" /\ IsFixedBytes
    /\ Len(ret.arg.value.bytes) < schema.size
    /\ prev_address_value # 0
    /\ prev.bytes[prev_address_value + schema.size] # 0
    /\ bytes[address_value + schema.size] = 0

\* C3: default on absence. With a default d in the schema, get(p) returns d
\* whenever the value address is 0 (never set, or set and deleted), and a get
\* leaves the bytes and the length of the buffer unchanged.
C3_DefaultOnAbsence ==
    /\ (schema.default.tag = "Some" /\ address_value = 0)
          => get(bytes, size, schema) = schema.default
    /\ ret.op = "get" =>
          /\ bytes = prev.bytes
          /\ (schema.default.tag = "Some" /\ address_value = 0)
                => ret.value = schema.default

\* C3 witness: a get returned the default after a set and a del
C3_Witness ==
    /\ ret.op = "get" /\ calls = 3
    /\ schema.default.tag = "Some" /\ ret.value = schema.default
    /\ address_value = 0
    /\ Len(bytes) > Len(NP_Memory_new(size))

\* C4: set, delete, compact. Without a default, after del the value is absent
\* (get returns None) while the bytes of the deleted value stay in the arena;
\* a compact that follows leaves a buffer of the size of an empty one (4 bytes
\* at the default address width, U16).
C4_SetDelCompact ==
    /\ ret.op = "del" =>
          /\ schema.default.tag = "None" => get(bytes, size, schema) = None
          /\ SameOutside(SlotAddrs)
    /\ (ret.op = "compact" /\ ret.res = "Ok" /\ prev_address_value = 0) =>
          /\ current_buffer(bytes) = Len(NP_Memory_new(size))
          /\ size = "U16" => current_buffer(bytes) = 4

\* C4 witness: set, del, compact on a U16 buffer ended with 4 bytes
C4_Witness ==
    /\ ret.op = "compact" /\ ret.res = "Ok" /\ calls = 3
    /\ prev_address_value = 0
    /\ Len(prev.bytes) > Len(NP_Memory_new(prev.size))
    /\ size = "U16" /\ current_buffer(bytes) = 4

\* C5: overwrite reuse. With a variable-size value present whose prefix holds
\* L, a set of n <= L bytes leaves |B| and the slot unchanged and rewrites only
\* the prefix and the n bytes after it; with n > L the existing allocation is
\* not written to and a successful set points the slot at the old tail.
C5_OverwriteReuse ==
    (ret.op = "set" /\ IsVarBytes /\ prev_address_value # 0) =>
        LET a == prev_address_value
            W == addr_size_bytes(size)
            L == read_address(prev.bytes, size, a)
            n == Len(ret.arg.value.bytes)
        IN  IF n <= L
            THEN /\ address_value = a
                 /\ SameOutside(a..(a + W + n - 1))
            ELSE /\ \A x \in a..(a + W + L - 1) :
                       x < Len(prev.bytes) => bytes[x + 1] = prev.bytes[x + 1]
                 /\ ret.res = "Ok" =>
                       /\ address_value = Len(prev.bytes)
                       /\ Len(bytes) = Len(prev.bytes) + W + n

\* C5 witness: a shorter value was written over a longer one in place
C5_Witness ==
    /\ ret.op = "set" /\ ret.res = "Ok" /\ IsVarBytes
    /\ prev_address_value # 0
    /\ Len(ret.arg.value.bytes) > 0
    /\ Len(ret.arg.value.bytes) < read_address(prev.bytes, size, prev_address_value)
    /\ bytes # prev.bytes

\* C9: failure leaves the value intact. When set_value on a variable-size
\* bytes value returns an error, the slot holds the address it held before
\* and get(p) returns what it returned before.
C9_FailureLeavesValue ==
    (ret.op = "set" /\ ret.res = "Err" /\ IsVarBytes) =>
        /\ address_value = prev_address_value
        /\ get(bytes, size, schema) = get(prev.bytes, prev.size, schema)

\* C10: TooLarge. A set of a variable-size value longer than 2^(8W) - 1
\* returns an error and changes nothing in the buffer.
C10_TooLarge ==
    (ret.op = "set" /\ IsVarBytes /\ exceeds_max(size, Len(ret.arg.value.bytes)))
        => ret.res = "Err" /\ bytes = prev.bytes

\* C10 witness: a value of 65536 bytes was refused by a U16 buffer that
\* holds a value
C10_Witness ==
    /\ ret.op = "set" /\ ret.res = "Err" /\ IsVarBytes
    /\ size = "U16" /\ Len(ret.arg.value.bytes) = U16_MAX + 1
    /\ address_value # 0

\* v can be brought to exp e without dropping a digit other than 0
NoDigitDropped(v, e) ==
    \/ v.exp <= e
    \/ mul10_loop(div10_loop(v.num, v.exp - e), v.exp - e, TRUE) = Done(v.num)

\* C6 as stated: decimal round trip. After set(p, v) of any NP_Dec v, get(p)
\* has the schema's exp and compares equal to v under NP_Dec equality.
C6_DecRoundTrip ==
    (ret.op = "set" /\ ret.res = "Ok" /\ IsDec) =>
        LET got == get(bytes, size, schema)
        IN  /\ got.tag = "Some"
            /\ got.value.exp = schema.exp
            /\ NP_Dec_eq(got.value, ret.arg.value, overflow_checks) = Done(TRUE)

\* C6 as amended: the round trip holds for every v that the schema's exp can
\* hold without dropping a digit other than 0.
C6_DecRoundTripExact ==
    (ret.op = "set" /\ ret.res = "Ok" /\ IsDec
        /\ NoDigitDropped(ret.arg.value, schema.exp)) =>
        LET got == get(bytes, size, schema)
        IN  /\ got.tag = "Some"
            /\ got.value.exp = schema.exp
            /\ NP_Dec_eq(got.value, ret.arg.value, overflow_checks) = Done(TRUE)

\* C6 witness: a negative decimal was rescaled to the higher exp of the schema
\* and stored
C6_Witness ==
    /\ ret.op = "set" /\ ret.res = "Ok" /\ IsDec
    /\ ret.arg.value.exp < schema.exp
    /\ i64_is_negative(ret.arg.value.num)
    /\ get(bytes, size, schema).value.num # ret.arg.value.num
    /\ NP_Dec_eq(get(bytes, size, schema).value, ret.arg.value, overflow_checks)
           = Done(TRUE)

----------------------------------------------------------------------------
(* Properties of NP_Dec values *)

\* a <= b in unsigned lexicographic byte order
bytes_le(a, b) ==
    \/ a = b
    \/ \E i \in 1..Len(a) : a[i] < b[i] /\ \A j \in 1..(i - 1) : a[j] = b[j]

\* C7: sort-preserving decimal encoding. The 8 bytes written are the
\* big-endian bytes of num with the high bit of the first byte flipped; for
\* nums n1 <= n2 the encodings compare enc(n1) <= enc(n2) byte by byte; and
\* into_value reads back the num that was written.
C7_SortPreservingEncoding ==
    (ret.op = "encode" /\ ret.res = "Ok") =>
        LET be == i64_to_be_bytes(lhs.num)
        IN  /\ Len(ret.value.a) = 8
            /\ ret.value.a[1] = (be[1] + 128) % 256
            /\ \A i \in 2..8 : ret.value.a[i] = be[i]
            /\ i64_le(lhs.num, rhs.num) => bytes_le(ret.value.a, ret.value.b)
            /\ i64_le(rhs.num, lhs.num) => bytes_le(ret.value.b, ret.value.a)
            /\ ret.value.back = Some(NP_Dec(lhs.num, lhs.exp))

\* C7 witness: a negative num and a non-negative num were encoded
C7_Witness ==
    /\ ret.op = "encode" /\ ret.res = "Ok"
    /\ i64_is_negative(lhs.num) /\ ~i64_is_negative(rhs.num)
    /\ ret.value.a[1] < 128 /\ ret.value.b[1] >= 128
    /\ ret.value.back = Some(lhs)

\* the nums of a and b once both are rescaled to the larger of the two exps
Normalized(a, b) ==
    LET e == IF a.exp >= b.exp THEN a.exp ELSE b.exp
        x == shift_exp(a, e, TRUE)
        y == shift_exp(b, e, TRUE)
    IN  [fits |-> ~x.panic /\ ~y.panic, a |-> x.value.num, b |-> y.value.num]

\* C8: decimal comparison normalizes to the larger exp. Each of ==, !=, <,
\* <=, >, >= and partial_cmp returns what comparing the two nums returns once
\* both operands are rescaled to max(a.exp, b.exp).
C8_CompareAtLargerExp ==
    (ret.op = "cmp" /\ Normalized(lhs, rhs).fits) =>
        LET n == Normalized(lhs, rhs)
        IN  /\ ret.value.eq = Done(n.a = n.b)
            /\ ret.value.ne = Done(n.a # n.b)
            /\ ret.value.lt = Done(i64_lt(n.a, n.b))
            /\ ret.value.le = Done(i64_le(n.a, n.b))
            /\ ret.value.gt = Done(i64_lt(n.b, n.a))
            /\ ret.value.ge = Done(i64_le(n.b, n.a))
            /\ ret.value.partial_cmp =
                 Done(IF i64_lt(n.b, n.a) THEN "Greater"
                      ELSE IF i64_lt(n.a, n.b) THEN "Less" ELSE "Equal")

----------------------------------------------------------------------------
(* Invariants of the arena *)

\* the value the slot points at lies inside the arena
ValueInside ==
    LET a == address_value
        W == addr_size_bytes(size)
    IN  /\ 0 < a /\ a < Len(bytes)
        /\ IF IsDec THEN a + 8 <= Len(bytes)
           ELSE IF IsFixedBytes THEN a + schema.size <= Len(bytes)
           ELSE /\ a + W <= Len(bytes)
                /\ a + W + read_address(bytes, size, a) <= Len(bytes)

\* C11: address invariant. After every returning set_value call the slot
\* holds 0 or an address a, 0 < a < |B|, whose whole value lies inside the
\* buffer; a value that was set is never represented by address 0.
C11_AddressInvariant ==
    (ret.op = "set" /\ ret.res \in {"Ok", "Err"}) =>
        /\ address_value = 0 \/ ValueInside
        /\ ret.res = "Ok" => address_value # 0

----------------------------------------------------------------------------
(* Aborts *)

\* C12: no abort path. No comparison, division or rescaling of NP_Dec values
\* and no set_value or into_value of the decimal codec aborts: every failure
\* is returned as an error value.
C12_NoAbortPath ==
    /\ ret.res # "panic"
    /\ ret.op = "cmp" =>
          \A f \in {"eq", "ne", "lt", "le", "gt", "ge", "partial_cmp"} :
              ~ret.value[f].panic
    /\ ret.op = "div" => ~ret.value.panic
    /\ ret.op = "encode" => ret.value.back.tag # "panic"

\* the slot holds an address whose value extends past the end of the arena
Corrupt == address_value # 0 /\ ~ValueInside

\* C13: corruption is reported. When the slot holds a non-zero address whose
\* value extends past |B|, into_value returns an error, never Ok(None), and
\* to_json does not return null in its place.
C13_CorruptionReported ==
    /\ (Corrupt /\ ret.op = "into_value") => ret.res = "Err"
    /\ (Corrupt /\ ret.op = "to_json") =>
          (ret.res # "panic" /\ ret.value # NP_JSON_Null)

----------------------------------------------------------------------------
(* Conversion of NP_Dec to integers *)

\* the whole numbers nearest to num * 10^-exp: the quotient q truncated
\* toward zero when the remainder is below half of 10^exp, the next whole
\* number away from zero when it is above, either of them at exactly half
NearestWhole(v) ==
    LET q    == div10_loop(v.num, v.exp)
        back == mul10_loop(i64_unsigned_abs(q), v.exp, FALSE).value
        rem  == u64_sub(i64_unsigned_abs(v.num), back)[4]
        away == IF i64_is_negative(v.num) THEN u64_sub(q, I64(1)) ELSE u64_inc(q)
    IN  IF 2 * rem < 10 ^ v.exp THEN {q}
        ELSE IF 2 * rem > 10 ^ v.exp THEN {away}
        ELSE {q, away}

\* an i64 that an i32 can hold
FitsI32(a) ==
    \/ a[1] = 0 /\ a[2] = 0 /\ a[3] < 32768
    \/ a[1] = WORD - 1 /\ a[2] = WORD - 1 /\ a[3] >= 32768

\* C14: conversion of an NP_Dec to i64 and to i32 rounds to the nearest whole
\* number: the result is the integer nearest to num * 10^-exp.
C14_IntoRoundsToNearest ==
    ret.op = "into" =>
        /\ ret.value.i64 \in NearestWhole(lhs)
        /\ (\A n \in NearestWhole(lhs) : FitsI32(n)) =>
              ret.value.i32 \in {i64_as_i32(n) : n \in NearestWhole(lhs)}

----------------------------------------------------------------------------
(* Compact schemas *)

RECURSIVE runs_len(_)
runs_len(runs) ==
    IF runs = <<>> THEN 0
    ELSE runs[1].count + runs_len(SubSeq(runs, 2, Len(runs)))

\* a valid bytes schema: size absent or 1..65535, default absent or an array
\* of up to 65535 bytes; a valid decimal schema: exp 0..255, default absent
\* or an integer
ValidJson(j) ==
    \/ /\ j.type = "bytes"
       /\ j.size.json = "Null" \/ (j.size.json = "Integer" /\ j.size.x \in 1..U16_MAX)
       /\ \/ j.default.json = "Null"
          \/ /\ j.default.json = "Array"
             /\ runs_len(j.default.items) <= U16_MAX
             /\ \A k \in 1..Len(j.default.items) :
                    j.default.items[k].item \in 0..U8_MAX
    \/ /\ j.type \in {"decimal", "dec"}
       /\ j.exp.json = "Integer" /\ j.exp.x \in 0..U8_MAX
       /\ j.default.json \in {"Null", "Integer"}

\* the bytes that the layout prescribes for the node n
BytesLayout(data, n) ==
    /\ Len(data) >= 5
    /\ data[1] = NP_TypeKeys_Bytes
    /\ from_be_bytes(SubSeq(data, 2, 3)) = n.size
    /\ from_be_bytes(SubSeq(data, 4, 5)) =
          (IF n.default.tag = "Some" THEN Len(n.default.value.bytes) + 1 ELSE 0)
    /\ SubSeq(data, 6, Len(data)) =
          (IF n.default.tag = "Some" THEN n.default.value.bytes ELSE <<>>)

DecimalLayout(data, n) ==
    data = <<NP_TypeKeys_Decimal, n.exp>>
             \o (IF n.default.tag = "Some"
                 THEN <<1>> \o i64_to_be_bytes(n.default.value.num)
                 ELSE <<0>>)

SchemaLayout(data, n) ==
    IF n.kind = "bytes" THEN BytesLayout(data, n) ELSE DecimalLayout(data, n)

\* C15: compact schema round trip. For every valid bytes schema (size
\* 0..65535, default absent or any array of up to 65535 bytes) and every
\* valid decimal schema (exp 0..255, default absent or an integer) the node
\* that from_bytes_to_schema produces from the bytes from_json_to_schema
\* emitted equals the node from_json_to_schema produced, and the bytes follow
\* the layout: tag, size u16 BE, default_len+1 u16 BE (0 = no default),
\* default bytes; tag, exp u8, has_default u8, optional 8-byte BE i64.
C15_SchemaRoundTrip ==
    ValidJson(json_schema) =>
        /\ (ret.op = "from_json" /\ ret.res = "Ok") =>
               \E data \in {seq_of(ret.value.data)} :
               \E n \in {UnpackNode(ret.value.schema[Len(ret.value.schema)])} :
                   SchemaLayout(data, n)
        /\ ret.op = "from_bytes" =>
               /\ ret.res = "Ok"
               /\ ret.value.schema = ret.arg.value

\* the default whose length plus one no longer fits the u16 of the layout
DefaultFillsU16 ==
    /\ json_schema.type = "bytes"
    /\ json_schema.default.json = "Array"
    /\ runs_len(json_schema.default.items) % (U16_MAX + 1) = U16_MAX

\* below that length the round trip and the layout hold whenever
\* from_json_to_schema returns
C15_RoundTripBelowLimit == DefaultFillsU16 \/ C15_SchemaRoundTrip

C15_LongDefaultRoundTrip ==
    /\ ret.op = "from_bytes" /\ ret.res = "Ok"
    /\ json_schema.type = "bytes"
    /\ json_schema.default.json = "Array"
    /\ runs_len(json_schema.default.items) = U16_MAX - 1
    /\ ret.value.schema = ret.arg.value

\* the size that the JSON schema gives, in tenths; 0 when it gives none
GivenSizeTenths(j) ==
    IF j.size.json = "Integer" THEN j.size.x * 10
    ELSE IF j.size.json = "Float" THEN j.size.tenths
    ELSE 0

SizeGiven(j) == j.size.json \in {"Integer", "Float"}

\* C16: bytes schema validation. from_json_to_schema for type bytes fails
\* with a schema error when a numeric size below 1 or above 65535 is given,
\* and then adds no node; otherwise it appends exactly one Bytes node whose
\* size is the given size (0 when none is given) and whose sortable flag is
\* true exactly when a size was given.
C16_BytesSchemaValidation ==
    (ret.op = "from_json" /\ json_schema.type = "bytes") =>
        IF SizeGiven(json_schema)
              /\ (GivenSizeTenths(json_schema) < 10
                    \/ GivenSizeTenths(json_schema) > U16_MAX * 10)
        THEN ret.res = "Err" /\ ret.value.schema = ret.arg.value
        ELSE /\ ret.res = "Ok"
             /\ Len(ret.value.schema) = Len(ret.arg.value) + 1
             /\ SubSeq(ret.value.schema, 1, Len(ret.arg.value)) = ret.arg.value
             /\ LET n == ret.value.schema[Len(ret.value.schema)]
                IN  /\ n.kind = "bytes"
                    /\ n.size * 10 = GivenSizeTenths(json_schema)
                    /\ n.sortable = SizeGiven(json_schema)

\* a size with a fraction
FractionalSize ==
    json_schema.size.json = "Float" /\ json_schema.size.tenths % 10 # 0

\* the validation is as stated for whole sizes and defaults whose length
\* field fits, and in the profile without overflow checks for every default
C16_ValidationElsewhere ==
    FractionalSize \/ (DefaultFillsU16 /\ overflow_checks)
        \/ C16_BytesSchemaValidation

\* the length overflow aborts the call when overflow checks are on
C16_LongDefaultAborts ==
    (ret.op = "from_json" /\ DefaultFillsU16 /\ overflow_checks) => ret.res = "panic"

\* a size of 2.5 is accepted as size 2
C16_FractionTruncated ==
    (ret.op = "from_json" /\ json_schema.type = "bytes" /\ FractionalSize
        /\ GivenSizeTenths(json_schema) \in 10..(U16_MAX * 10)) =>
        /\ ret.res = "Ok"
        /\ ret.value.schema[Len(ret.value.schema)].size =
              GivenSizeTenths(json_schema) \div 10

\* the schema names an integer exp in 0..=255
ExpInRange ==
    json_schema.exp.json = "Integer" /\ json_schema.exp.x \in 0..U8_MAX

\* C17: decimal schema validation. from_json_to_schema for type decimal or
\* dec fails with a schema error if and only if exp is missing, not an
\* integer, or outside 0..=255; for every integer exp in 0..=255 it succeeds
\* and appends exactly one Decimal node with that exp and sortable = true.
C17_DecimalSchemaValidation ==
    (ret.op = "from_json" /\ json_schema.type \in {"decimal", "dec"}) =>
        /\ ret.res = "Err" <=> ~ExpInRange
        /\ ExpInRange =>
              /\ ret.res = "Ok"
              /\ Len(ret.value.schema) = Len(ret.arg.value) + 1
              /\ SubSeq(ret.value.schema, 1, Len(ret.arg.value)) = ret.arg.value
              /\ LET n == ret.value.schema[Len(ret.value.schema)]
                 IN  n.kind = "dec" /\ n.exp = json_schema.exp.x /\ n.sortable

\* 10^exp no longer fits an i64
PowerOverflows == ExpInRange /\ json_schema.exp.x >= 19

\* the default times 10^exp no longer fits an i64
ScaledDefaultOverflows ==
    /\ ExpInRange
    /\ json_schema.default.json = "Integer"
    /\ i64_mul_pow10(I64(json_schema.default.x), json_schema.exp.x, TRUE).panic

\* the validation is as stated while 10^exp and the scaled default fit an
\* i64, and for every exp in the profile without overflow checks
C17_ValidationElsewhere ==
    (overflow_checks /\ (PowerOverflows \/ ScaledDefaultOverflows))
        \/ C17_DecimalSchemaValidation

\* with overflow checks on, every exp from 19 up aborts the call, with or
\* without a default
C17_LargeExpAborts ==
    (ret.op = "from_json" /\ json_schema.type \in {"decimal", "dec"}
        /\ PowerOverflows /\ overflow_checks) => ret.res = "panic"

\* a decimal schema with an exponent in range and an integer default
ScaledDefault ==
    /\ json_schema.type \in {"decimal", "dec"}
    /\ ExpInRange
    /\ json_schema.default.json = "Integer"

\* x * 10^e for the default x and the exponent e of the schema
DefaultTimesPower ==
    i64_mul_pow10(I64(json_schema.default.x), json_schema.exp.x, TRUE).value

\* C18: decimal default scaling. For a decimal schema with exponent e in
\* 0..=255 and an integer default x the parsed default is
\* NP_Dec{num: x * 10^e, exp: e}, and the default read from an empty buffer
\* has that num and exp e.
C18_DefaultScaling ==
    ScaledDefault =>
        /\ ret.op = "from_json" =>
              /\ ret.res = "Ok"
              /\ ~ScaledDefaultOverflows
              /\ ret.value.schema[Len(ret.value.schema)].default =
                    Some(NP_Dec(DefaultTimesPower, json_schema.exp.x))
        /\ ret.op = "get" =>
              /\ ~ScaledDefaultOverflows
              /\ ret.value = Some(NP_Dec(DefaultTimesPower, json_schema.exp.x))

\* the scaling is as stated whenever x * 10^e fits an i64 and, with overflow
\* checks on, 10^e does too
C18_ScalingWhereItFits ==
    ScaledDefaultOverflows \/ (overflow_checks /\ PowerOverflows)
        \/ C18_DefaultScaling

\* with overflow checks off a product that does not fit is stored wrapped
C18_WrappedDefault ==
    /\ ret.op = "get" /\ ScaledDefault /\ ScaledDefaultOverflows
    /\ ~overflow_checks

C18_ScaledDefaultRead ==
    /\ ret.op = "get" /\ ScaledDefault
    /\ json_schema.default.x = 203 /\ json_schema.exp.x = 3
    /\ ret.value = Some(NP_Dec(I64(203000), 3))

----------------------------------------------------------------------------
(* Footprint of the value *)

\* C19: get_size returns the value's in-buffer footprint: 0 when the value
\* address is 0; 8 for a present decimal; s for present fixed-size bytes of
\* size s; W + len for present variable-size bytes, len being the length of
\* the value most recently set: the length that a set which returned Ok was
\* given, also when the value went into a larger allocation, and the length
\* of the value that a read returns.
C19_GetSize ==
    LET W == addr_size_bytes(size)
        x == into_value(bytes, size, schema)
    IN  /\ address_value = 0 => get_size(bytes, size, schema) = 0
        /\ (address_value # 0 /\ schema.kind = "dec") =>
              get_size(bytes, size, schema) = 8
        /\ (address_value # 0 /\ schema.kind = "bytes" /\ schema.size > 0) =>
              get_size(bytes, size, schema) = schema.size
        /\ (address_value # 0 /\ IsVarBytes /\ ret.op = "set" /\ ret.res = "Ok") =>
              get_size(bytes, size, schema) = W + Len(ret.arg.value.bytes)
        /\ (address_value # 0 /\ IsVarBytes /\ x.tag = "Some") =>
              get_size(bytes, size, schema) = W + Len(x.value.bytes)

\* a shorter value was set into the allocation of a longer one
C19_Witness ==
    /\ IsVarBytes /\ ret.op = "set" /\ ret.res = "Ok"
    /\ address_value # 0
    /\ address_value = cursor_address_value(prev.bytes, prev.size)
    /\ read_address(prev.bytes, prev.size, address_value) > Len(ret.arg.value.bytes)
    /\ Len(ret.arg.value.bytes) > 0
    /\ get_size(bytes, size, schema) = addr_size_bytes(size) + Len(ret.arg.value.bytes)

----------------------------------------------------------------------------
(* Growth of variable-size bytes *)

\* a set of n bytes that returned Ok where the value was absent or its
\* stored length was below n
GrowingSet ==
    /\ IsVarBytes /\ ret.op = "set" /\ ret.res = "Ok"
    /\ \/ cursor_address_value(prev.bytes, prev.size) = 0
       \/ prev_size(prev.bytes, prev.size) < Len(ret.arg.value.bytes)

\* C20: growth layout of variable-size bytes. When set is called with a
\* value of length n and the value is absent or its stored length is below
\* n, the call appends exactly W + n bytes at the tail: the W-byte big-endian
\* length prefix n at the old end address a, then the n data bytes from
\* a + W with nothing in between; the slot is rewritten to a; what was
\* allocated before is left in place unchanged.
C20_GrowthLayout ==
    GrowingSet =>
        LET W == addr_size_bytes(size)
            v == ret.arg.value.bytes
            n == Len(v)
            a == Len(prev.bytes)
        IN  /\ Len(bytes) = a + W + n
            /\ SubSeq(bytes, a + 1, a + W) = to_be_bytes(n, W)
            /\ SubSeq(bytes, a + W + 1, a + W + n) = v
            /\ address_value = a
            /\ \A i \in 1..a :
                  i \notin (cursor_address + 1)..(cursor_address + W) =>
                      bytes[i] = prev.bytes[i]

\* the empty value set where no value is present
EmptyOnAbsent ==
    /\ ret.op = "set"
    /\ Len(ret.arg.value.bytes) = 0
    /\ cursor_address_value(prev.bytes, prev.size) = 0

\* every other growing set has the layout
C20_GrowthOfNonEmpty == (IsVarBytes /\ EmptyOnAbsent) \/ C20_GrowthLayout

\* the empty value set where no value is present appends nothing and leaves
\* the slot at 0
C20_EmptyAppendsNothing ==
    (GrowingSet /\ EmptyOnAbsent) =>
        Len(bytes) = Len(prev.bytes) /\ address_value = 0

\* a longer value set over a shorter one
C20_GrownOverShorter ==
    /\ GrowingSet
    /\ cursor_address_value(prev.bytes, prev.size) # 0
    /\ address_value = Len(prev.bytes)

----------------------------------------------------------------------------
(* Arithmetic on NP_Dec *)

\* the num of b once b is brought to the exp of a
RescaledNum(a, b) ==
    IF a.exp # b.exp THEN shift_exp(b, a.exp, overflow_checks).value.num
    ELSE b.num

\* C21: decimal arithmetic rescales the right operand to the left operand's
\* exp. For a op b with op among +, -, *, / and for the assigning forms, the
\* result's num is a.num op shift_exp(b, a.exp).num when the exps differ and
\* a.num op b.num when they are equal, the result's exp is a.exp, and b is
\* not modified.
C21_ArithmeticRescalesRight ==
    (ret.op = "arith" /\ ret.res = "Ok") =>
        LET a == ret.arg.value.a
            b == ret.arg.value.b
            r == i64_op(ret.arg.value.op, a.num, RescaledNum(a, b),
                        overflow_checks)
        IN  /\ ret.value = NP_Dec(r.value, a.exp)
            /\ lhs = NP_Dec(r.value, a.exp)
            /\ rhs = b

\* a product whose right operand lost digits when it was rescaled: 25 at
\* exp 0 times 2203 at exp 2 is 25 * 22
C21_Witness ==
    /\ ret.op = "arith" /\ ret.res = "Ok" /\ ret.arg.value.op = "mul"
    /\ ret.arg.value.a = NP_Dec(I64(25), 0)
    /\ ret.arg.value.b = NP_Dec(I64(2203), 2)
    /\ ret.value = NP_Dec(I64(550), 0)
    /\ lhs = ret.value

----------------------------------------------------------------------------
(* shift_exp *)

\* C22: shift_exp(new_exp) on NP_Dec{num, exp} sets exp to new_exp; when
\* new_exp > exp the num becomes num * 10^(new_exp - exp), exact whenever the
\* product fits in i64; when new_exp < exp the num becomes num divided by
\* 10^(exp - new_exp), truncated toward zero; when new_exp = exp nothing
\* changes. The returned value equals the updated receiver.
C22_ShiftExp ==
    (ret.op = "shift_exp" /\ ret.res = "Ok") =>
        LET self    == ret.arg.value.self
            new_exp == ret.arg.value.new_exp
            up      == i64_mul(self.num, I64(10 ^ (new_exp - self.exp)), TRUE)
            down    == i64_div(self.num, I64(10 ^ (self.exp - new_exp)))
        IN  /\ ret.value.exp = new_exp
            /\ (new_exp > self.exp /\ ~up.panic) => ret.value.num = up.value
            /\ new_exp < self.exp => ret.value.num = down.value
            /\ new_exp = self.exp => ret.value = self
            /\ lhs = ret.value

\* 2203 at exp 2 brought to exp 0 is 22
C22_Witness ==
    /\ ret.op = "shift_exp" /\ ret.res = "Ok"
    /\ ret.arg.value.self = NP_Dec(I64(2203), 2)
    /\ ret.arg.value.new_exp = 0
    /\ ret.value = NP_Dec(I64(22), 0)
    /\ lhs = ret.value

\* a negative num brought to a lower exp is truncated toward zero, and a
\* num brought to a higher exp is multiplied
C22_NegativeTruncated ==
    /\ ret.op = "shift_exp" /\ ret.res = "Ok"
    /\ ret.arg.value.self = NP_Dec(I64(-2203), 2)
    /\ ret.arg.value.new_exp = 1
    /\ ret.value = NP_Dec(I64(-220), 1)

C22_ShiftedUp ==
    /\ ret.op = "shift_exp" /\ ret.res = "Ok"
    /\ ret.arg.value.self = NP_Dec(I64(2203), 0)
    /\ ret.arg.value.new_exp = 2
    /\ ret.value = NP_Dec(I64(220300), 2)

----------------------------------------------------------------------------
(* Decimal writes *)

\* the 8 addresses of the decimal at the value address
DecAddrs == address_value..(address_value + 7)

\* C23: decimal overwrite is in place. The first set of an absent decimal
\* appends exactly 8 bytes at the tail and writes their start address into
\* the slot; every later set while the value is present leaves |B| and the
\* slot unchanged and changes only the 8 bytes at the value address. After
\* del the value is absent again: the next set appends a fresh 8-byte region
\* and leaves the old 8 bytes untouched.
C23_DecimalInPlace ==
    (IsDec /\ ret.op = "set" /\ ret.res = "Ok") =>
        IF prev_address_value = 0
        THEN /\ Len(bytes) = Len(prev.bytes) + 8
             /\ address_value = Len(prev.bytes)
             /\ \A a \in 0..(Len(prev.bytes) - 1) :
                   a \notin SlotAddrs => bytes[a + 1] = prev.bytes[a + 1]
        ELSE /\ address_value = prev_address_value
             /\ SameOutside(DecAddrs)

\* a set after a del: the arena holds the 8 bytes of the deleted value, and
\* the new region starts behind them
C23_Witness ==
    /\ IsDec /\ ret.op = "set" /\ ret.res = "Ok"
    /\ prev_address_value = 0
    /\ Len(prev.bytes) = Len(NP_Memory_new(size)) + 8
    /\ address_value = Len(prev.bytes)
    /\ Len(bytes) = Len(prev.bytes) + 8

\* a set over a present decimal that changed its bytes
C23_Overwritten ==
    /\ IsDec /\ ret.op = "set" /\ ret.res = "Ok"
    /\ prev_address_value # 0
    /\ bytes # prev.bytes
    /\ Len(bytes) = Len(prev.bytes)

----------------------------------------------------------------------------
(* The preamble *)

\* the addresses of the preamble below the root slot
HeaderAddrs == 0..(cursor_address - 1)

\* C24: the preamble is never overwritten by a value write. For every
\* sequence of bytes set_value calls, at any address width, with any values
\* including the empty one, value absent or present, the bytes of the buffer
\* below the first allocated address, other than the slot itself, are never
\* modified.
C24_PreambleIntact ==
    (schema.kind = "bytes" /\ ret.op = "set") =>
        \A a \in HeaderAddrs : bytes[a + 1] = prev.bytes[a + 1]

\* every set but that of the empty value where no value is present leaves
\* the preamble as it was
C24_IntactOtherwise == (IsVarBytes /\ EmptyOnAbsent) \/ C24_PreambleIntact

\* the empty value set where no value is present writes the W bytes of the
\* length 0 from address 0 on, and returns Ok
C24_LengthWrittenAtZero ==
    (IsVarBytes /\ EmptyOnAbsent) =>
        /\ ret.res = "Ok"
        /\ SubSeq(bytes, 1, addr_size_bytes(size)) =
              to_be_bytes(0, addr_size_bytes(size))

----------------------------------------------------------------------------
(* Order and equality of NP_Dec *)

\* neither operand overflows an i64 when it is brought to the exp of the
\* other
NoOverflow ==
    /\ ~match_exp(lhs, rhs, TRUE).panic
    /\ ~match_exp(rhs, lhs, TRUE).panic

\* C25: decimal ordering is antisymmetric under operand swap. For all NP_Dec
\* a and b, of equal or different exps, without overflow, a < b holds if and
\* only if b > a holds, and a <= b holds if and only if b >= a holds.
C25_OrderSwap ==
    (ret.op = "cmp_swapped" /\ NoOverflow) =>
        /\ ret.value.lt.value = ret.value.gt.value
        /\ ret.value.le.value = ret.value.ge.value

\* the swap changes nothing when the exps are equal, and when the operand
\* of the larger exp loses no digit at the smaller one
C25_SwapWithoutLoss ==
    (ret.op = "cmp_swapped" /\ NoOverflow
        /\ shift_exp(shift_exp(lhs, rhs.exp, FALSE).value, lhs.exp, FALSE).value = lhs
        /\ shift_exp(shift_exp(rhs, lhs.exp, FALSE).value, rhs.exp, FALSE).value = rhs) =>
        /\ ret.value.lt.value = ret.value.gt.value
        /\ ret.value.le.value = ret.value.ge.value

\* 1 < 1.99 is false while 1.99 > 1 is true
C25_SwapDisagrees ==
    /\ ret.op = "cmp_swapped"
    /\ lhs = NP_Dec(I64(1), 0) /\ rhs = NP_Dec(I64(199), 2)
    /\ ~ret.value.lt.value /\ ret.value.gt.value

\* C26: decimal equality and ordering agree. For all NP_Dec a and b, a == b
\* holds if and only if partial_cmp(a, b) returns Equal, a != b is the
\* negation of a == b, and exactly one of a < b, a == b, a > b holds.
C26_EqualityAgreesWithOrder ==
    (ret.op = "cmp" /\ NoOverflow) =>
        /\ ret.value.eq.value <=> ret.value.partial_cmp.value = "Equal"
        /\ ret.value.ne.value <=> ~ret.value.eq.value
        /\ \/ ret.value.lt.value /\ ~ret.value.eq.value /\ ~ret.value.gt.value
           \/ ~ret.value.lt.value /\ ret.value.eq.value /\ ~ret.value.gt.value
           \/ ~ret.value.lt.value /\ ~ret.value.eq.value /\ ret.value.gt.value

\* the right operand loses no digit at the exp of the left one
RightKeepsDigits ==
    shift_exp(shift_exp(rhs, lhs.exp, FALSE).value, rhs.exp, FALSE).value = rhs

\* equality and order agree whenever the right operand loses no digit
C26_AgreeWithoutLoss ==
    RightKeepsDigits => C26_EqualityAgreesWithOrder

\* a != b is the negation of a == b for all operands
C26_NeNegatesEq ==
    (ret.op = "cmp" /\ NoOverflow) => (ret.value.ne.value <=> ~ret.value.eq.value)

\* 0 and 0.1: not equal, and neither less nor greater
C26_NoneOfThree ==
    /\ ret.op = "cmp"
    /\ lhs = NP_Dec(I64(0), 0) /\ rhs = NP_Dec(I64(1), 1)
    /\ ~ret.value.eq.value /\ ~ret.value.lt.value /\ ~ret.value.gt.value
    /\ ret.value.partial_cmp.value = "Equal"

====
